---------------------------- MODULE Spec2Model ----------------------------
(***************************************************************************)
(* A model of the NLU bridge of jalfonsosm/agi-llm (lib/nagi-llm):        *)
(*   - the WORDS.TOK dictionary codec (get_word_string),                  *)
(*   - the session state of a backend (rotation counter, sequence slots   *)
(*     of the engine's KV cache, detected-language cache),                *)
(*   - the pipeline calls of the three backend variants (bitnet,          *)
(*     llamacpp, cloud) and of the backend-independent entry point        *)
(*     nagi_llm_extract_words,                                            *)
(*   - the yes/no classification of a sampled reply.                      *)
(* Strings that the code inspects character by character are sequences    *)
(* of character codes (ASCII); C index k is TLA+ index k + 1.             *)
(***************************************************************************)
EXTENDS Integers, Sequences, FiniteSets, TLC

VARIABLES
    \* ---- the backend object (nagi_llm_t) and its state (llm_state_t)
    backend,            \* llm->backend: "bitnet", "llamacpp" or "cloud"
    initialized,        \* llm->state != NULL && llm->state->initialized
    n_seq_max,          \* llm->config.n_seq_max
    batch_size,         \* llm->config.batch_size
    seq_counter,        \* state->seq_counter
    detected_language,  \* state->detected_language ("" while nothing is cached)
    dictionary_data,    \* state->dictionary_data: <<>> is NULL, else the bytes
    verbs_extracted,    \* the static memo flag of extract_game_verbs
    buffer,             \* the static char buffer[64] of get_word_string
    \* ---- the inference engine (external): which calls have tokens in a slot
    kv,                 \* slot id -> set of tags: "cur", "old", "det"
    \* ---- the call in progress, or the last one
    pc,                 \* position of the running call, "idle" between calls
    call,               \* [op, api, input, ids] of the running or last call
    current_seq,        \* the slot assigned to the call (-1: none)
    n_prompt_tokens,    \* result of tokenization
    i_tok,              \* prompt tokens already decoded (loop variable i)
    gen_count,          \* tokens generated and decoded
    clears,             \* number of clears of current_seq in this call
    stale,              \* the slot held earlier tokens when it was assigned
    ret,                \* what the last finished call returned
    ncalls,             \* calls since init that passed their precondition checks
    nfail,              \* engine failures (tokenize, decode) since init
    init_ret,           \* what the last init returned: 1, 0, or -1 before any
    language,           \* the language a generation call puts in its prompt
    last_ok,            \* result of the last detection that succeeded since init
    \* ---- inputs and results of the pure functions
    table,              \* the word table the dictionary was encoded from
    word_id,            \* argument of the last get_word_string
    gws,                \* its result
    response_buf,       \* a sampled reply (character codes)
    match_ret,          \* its classification: 1, 0, or -1 before any
    \* ---- the caller of extract_words
    held,               \* the results it keeps: what was returned, and its text
    \* ---- callers that overlap
    thr,                \* caller -> [pc, tmp, current_seq, lang, w] of its call
    \* ---- nagi_llm_load_config
    file,               \* the configuration file: whether it exists, its lines
    line_no,            \* lines read so far by fgets
    current_section,    \* char current_section[64]
    config,             \* the nagi_llm_config_t being filled
    \* ---- the engine (external): what llama_decode was given
    batches,            \* the batches decoded in the running call, in order
    \* ---- extract_game_verbs
    verb_memo,          \* each copy's static verbs_extracted and verb_list
    computed,           \* each copy's number of computations of its list
    verbs               \* what the last call of extract_game_verbs returned

objVars  == <<backend, initialized, n_seq_max, batch_size, seq_counter,
              detected_language, verbs_extracted, kv>>
histVars == <<init_ret, language, last_ok>>
callVars == <<pc, call, current_seq, n_prompt_tokens, i_tok, gen_count,
              clears, stale, ret, ncalls, nfail, histVars>>
dictVars == <<dictionary_data, buffer, table, word_id, gws>>
overlapVars == <<thr>>
configVars == <<file, line_no, current_section, config>>
engineVars == <<batches>>
verbVars == <<verb_memo, computed, verbs>>
extraVars == <<held, overlapVars, configVars, engineVars, verbVars>>
replyVars == <<response_buf, match_ret, extraVars>>
vars == <<objVars, callVars, dictVars, replyVars>>

(***************************************************************************)
(* Bounds of the model.                                                    *)
(***************************************************************************)
MaxSuffix == 1      \* stored characters per record of a synthetic table
MaxChain == 2       \* records per letter chain of a synthetic table

(***************************************************************************)
(* Program constants.                                                      *)
(***************************************************************************)
BufSize == 64       \* sizeof(buffer) in get_word_string
NLetters == 26      \* offsets in the WORDS.TOK header

Min(a, b) == IF a < b THEN a ELSE b
Max(a, b) == IF a > b THEN a ELSE b

(***************************************************************************)
(* Dictionary codec.                                                       *)
(***************************************************************************)
\* *ptr for a 0-based offset into the dictionary bytes
ByteAt(d, p) == d[p + 1]
\* whether offset p lies inside the bytes handed to set_dictionary
InData(d, p) == p >= 0 /\ p < Len(d)

\* (u16)((ptr[0] << 8) | ptr[1])
load_be_16(d, p) == ByteAt(d, p) * 256 + ByteAt(d, p + 1)

\* the low seven bits of a byte taken as they are (byte & 0x7F)
decoded_char_plain(byte) == byte % 128

\* (byte & 0x7F) ^ 0x7F
decoded_char(byte) == 127 - (byte % 128)

\* the C string held in a char array: the characters before the first NUL
CStr(buf) ==
    LET nul == {k \in 1..Len(buf) : buf[k] = 0}
        n == IF nul = {} THEN Len(buf)
             ELSE (CHOOSE k \in nul : \A j \in nul : k <= j) - 1
    IN SubSeq(buf, 1, n)

\* The inner "Decode characters" loop of get_word_string, started with ptr
\* at the first character byte and len = prefix_count. Iteration k reads
\* *ptr first; it stores the character if len < sizeof(buffer) - 1 and
\* otherwise breaks out WITHOUT consuming the rest of the word; it ends
\* after a byte with bit 7 set. The loop is given in closed form: stop is
\* the first iteration that reads outside the bytes or reads a last
\* character, room the number of characters the buffer still takes.
FirstStop(d, ptr) ==
    LET stops == {k \in 0..Max(0, Len(d) - ptr) :
                     ~InData(d, ptr + k) \/ ByteAt(d, ptr + k) >= 128}
    IN CHOOSE k \in stops : \A j \in stops : k <= j

DecodeFrom(d, ptr, buf, len, stop, room) ==
    IF ~InData(d, ptr + Min(stop, room))
    THEN [kind |-> "oob_read", ptr |-> ptr + Min(stop, room),
          buf |-> buf, len |-> len]
    ELSE [kind |-> "ok",
          ptr |-> IF stop < room THEN ptr + stop + 1 ELSE ptr + room,
          buf |-> [j \in 1..BufSize |->
                     IF j - 1 >= len
                        /\ j - 1 < len + (IF stop < room THEN stop + 1 ELSE room)
                     THEN decoded_char(ByteAt(d, ptr + (j - 1 - len)))
                     ELSE buf[j]],
          len |-> len + (IF stop < room THEN stop + 1 ELSE room)]

DecodeChars(d, ptr, buf, len) ==
    DecodeFrom(d, ptr, buf, len, FirstStop(d, ptr), Max(0, (BufSize - 1) - len))

\* The while(1) loop over the records of one letter section. ptr is at a
\* prefix byte. ScanSection reads the prefix byte and decodes the word,
\* AfterWord is "buffer[len] = '\0'", CompareId reads the id, compares it
\* and goes on with "ptr += 2". Results: "found", "end" (terminator
\* reached), "oob_write" (buffer indexed at index >= 64), "oob_read" (a
\* read outside the dictionary bytes).
RECURSIVE ScanSection(_, _, _, _, _)
RECURSIVE AfterWord(_, _, _, _)
RECURSIVE CompareId(_, _, _, _, _)
ScanSection(d, ptr, buf, words_in_section, id) ==
    IF ~InData(d, ptr) THEN [kind |-> "oob_read", buf |-> buf, index |-> -1]
    ELSE IF words_in_section > 0 /\ ByteAt(d, ptr) = 0
    THEN [kind |-> "end", buf |-> buf, index |-> -1]
    ELSE AfterWord(d, DecodeChars(d, ptr + 1, buf, ByteAt(d, ptr)),
                   words_in_section + 1, id)

AfterWord(d, dc, words_in_section, id) ==
    IF dc.kind # "ok" THEN [kind |-> "oob_read", buf |-> dc.buf, index |-> -1]
    ELSE IF dc.len >= BufSize
    THEN [kind |-> "oob_write", buf |-> dc.buf, index |-> dc.len]
    ELSE CompareId(d, dc.ptr, [dc.buf EXCEPT ![dc.len + 1] = 0],
                   words_in_section, id)

CompareId(d, ptr, buf, words_in_section, id) ==
    IF ~InData(d, ptr + 1) THEN [kind |-> "oob_read", buf |-> buf, index |-> -1]
    ELSE IF load_be_16(d, ptr) = id
    THEN [kind |-> "found", buf |-> buf, index |-> -1]
    ELSE ScanSection(d, ptr + 2, buf, words_in_section, id)

\* The for loop over the 26 letter offsets; NextLetter is the step to
\* the next letter after the section of letter i ended.
RECURSIVE ScanLetters(_, _, _, _)
RECURSIVE NextLetter(_, _, _, _)
ScanLetters(d, i, buf, id) ==
    IF i >= NLetters THEN [kind |-> "notfound", buf |-> buf, index |-> -1]
    ELSE IF ~InData(d, i * 2 + 1)
    THEN [kind |-> "oob_read", buf |-> buf, index |-> -1]
    ELSE IF load_be_16(d, i * 2) = 0 THEN ScanLetters(d, i + 1, buf, id)
    ELSE NextLetter(d, i,
                    ScanSection(d, load_be_16(d, i * 2),
                                [buf EXCEPT ![1] = 0], 0, id),
                    id)

NextLetter(d, i, r, id) ==
    IF r.kind = "end" THEN ScanLetters(d, i + 1, r.buf, id) ELSE r

\* the value get_word_string returns for the outcome r of the scan
word_result(r) ==
    [kind |-> r.kind,
     word |-> IF r.kind = "found" THEN CStr(r.buf) ELSE <<>>,
     buf |-> r.buf, index |-> r.index]

\* get_word_string(llm, word_id) with the static buffer as it stands:
\* [kind, word, buf]; kind "null" is the NULL returned without a dictionary.
\* The comparison is id == (u16)word_id.
get_word_string(d, id, buf) ==
    IF d = <<>> THEN [kind |-> "null", word |-> <<>>, buf |-> buf, index |-> -1]
    ELSE word_result(ScanLetters(d, 0, buf, id % 65536))


(***************************************************************************)
(* Synthetic word tables and their WORDS.TOK encoding (the test fixture of *)
(* the codec: the format as the comment above get_word_string states it).  *)
(* A table gives, for the letters 'a' (offset entry 0) and 'l' (offset     *)
(* entry 11), a chain of records [p, s, id]: p characters are shared with  *)
(* the previous word of the chain, s are the stored characters.            *)
(***************************************************************************)
Alphabet == {97, 98}                    \* 'a', 'b'
LOOK == <<108, 111, 111, 107>>          \* "look"

\* all non-empty character sequences of at most n characters
RECURSIVE SeqsUpTo(_, _)
SeqsUpTo(S, n) ==
    IF n = 0 THEN {<<>>}
    ELSE LET T == SeqsUpTo(S, n - 1) IN
         T \cup {Append(t, c) : t \in {u \in T : Len(u) = n - 1}, c \in S}
Suffixes == SeqsUpTo(Alphabet, MaxSuffix) \ {<<>>}

\* the full words of a chain, record by record
RECURSIVE FullWords(_)
FullWords(chain) ==
    IF chain = <<>> THEN <<>>
    ELSE LET n == Len(chain)
             before == FullWords(SubSeq(chain, 1, n - 1))
             prev == IF n = 1 THEN <<>> ELSE before[n - 1]
         IN Append(before, SubSeq(prev, 1, Min(chain[n].p, Len(prev))) \o chain[n].s)

\* a chain in the format: first record without prefix, later records
\* sharing 1..len(previous word) characters, every record storing at
\* least one character, no word longer than the decoder's 63 characters
WellFormedChain(chain) ==
    \A k \in 1..Len(chain) :
        /\ Len(chain[k].s) >= 1
        /\ Len(FullWords(chain)[k]) <= BufSize - 1
        /\ IF k = 1 THEN chain[k].p = 0
           ELSE chain[k].p >= 1 /\ chain[k].p <= Len(FullWords(chain)[k - 1])
WellFormed(t) == WellFormedChain(t.a) /\ WellFormedChain(t.l)

\* ids of the 'a' chain by position (300 needs both bytes of the id)
IdOfPos(k) == IF k = 2 THEN 300 ELSE k + 20

\* well-formed chains of exactly n records over the alphabet
RECURSIVE ChainsOfLen(_)
ChainsOfLen(n) ==
    IF n = 1 THEN {<<[p |-> 0, s |-> s, id |-> IdOfPos(1)]>> : s \in Suffixes}
    ELSE UNION {
           {Append(c, [p |-> q, s |-> s, id |-> IdOfPos(n)]) :
                q \in 1..Len(FullWords(c)[n - 1]), s \in Suffixes}
           : c \in ChainsOfLen(n - 1)}
ChainsA == {<<>>} \cup UNION {ChainsOfLen(n) : n \in 1..MaxChain}
ChainsL == {<<>>,
            <<[p |-> 0, s |-> LOOK, id |-> 5]>>,
            <<[p |-> 0, s |-> LOOK, id |-> 5], [p |-> 4, s |-> <<115>>, id |-> 6]>>,
            <<[p |-> 0, s |-> LOOK, id |-> 5], [p |-> 3, s |-> <<116>>, id |-> 6]>>}
GoodTables == {[a |-> ca, l |-> cl] : ca \in ChainsA, cl \in ChainsL}

\* malformed tables: the second record of the 'a' chain has a prefix byte
\* at or beyond the buffer size, or more characters than the buffer holds
LongWord == [k \in 1..(BufSize + 6) |-> 98]
BadSecond == {[p |-> q, s |-> s, id |-> 300] :
                 q \in {1, BufSize - 2, BufSize - 1, BufSize, 200},
                 s \in {<<98>>, LongWord}}
BadTables ==
    {[a |-> <<[p |-> 0, s |-> <<97>>, id |-> 21], r, [p |-> 1, s |-> <<98>>, id |-> 23]>>,
      l |-> <<[p |-> 0, s |-> LOOK, id |-> 5]>>] : r \in BadSecond} \ GoodTables

\* the bytes of one record: prefix byte, characters XOR 0x7F with the high
\* bit set on the last one, big-endian id
RecBytes(r) ==
    <<r.p>>
    \o [k \in 1..Len(r.s) |->
          IF k = Len(r.s) THEN (127 - r.s[k]) + 128 ELSE 127 - r.s[k]]
    \o <<r.id \div 256, r.id % 256>>
RECURSIVE ChainBytes(_)
ChainBytes(chain) ==
    IF chain = <<>> THEN <<0>>
    ELSE RecBytes(Head(chain)) \o ChainBytes(Tail(chain))

HeaderSize == 52    \* 26 offsets of 2 bytes
LetterIndex(ch) == ch - 97      \* offset entry of a lower-case letter
Encode(t) ==
    LET bytesA == IF t.a = <<>> THEN <<>> ELSE ChainBytes(t.a)
        bytesL == IF t.l = <<>> THEN <<>> ELSE ChainBytes(t.l)
        offA == IF t.a = <<>> THEN 0 ELSE HeaderSize
        offL == IF t.l = <<>> THEN 0 ELSE HeaderSize + Len(bytesA)
        header == [k \in 1..HeaderSize |->
                     IF k = 2 * LetterIndex(97) + 1 THEN offA \div 256
                     ELSE IF k = 2 * LetterIndex(97) + 2 THEN offA % 256
                     ELSE IF k = 2 * LetterIndex(108) + 1 THEN offL \div 256
                     ELSE IF k = 2 * LetterIndex(108) + 2 THEN offL % 256
                     ELSE 0]
    IN header \o bytesA \o bytesL

\* the records of a table in scan order, with their full words
Entries(t) ==
    [k \in 1..Len(t.a) |-> [id |-> t.a[k].id, word |-> FullWords(t.a)[k]]]
    \o [k \in 1..Len(t.l) |-> [id |-> t.l[k].id, word |-> FullWords(t.l)[k]]]
IdsOf(t) == {Entries(t)[k].id : k \in 1..Len(Entries(t))}
WordOf(t, id) == (CHOOSE e \in {Entries(t)[k] : k \in 1..Len(Entries(t))} : e.id = id).word

\* the ids looked up (all 16-bit, as the word ids of a game are): every id
\* a table can hold and two that none holds
QueryIds == {5, 6, 7, 21, 300, 23, 24}

ZeroBuffer == [k \in 1..BufSize |-> 0]
NoResult == [kind |-> "none", word |-> <<>>, buf |-> ZeroBuffer, index |-> -1]
NoCall == [op |-> "none", api |-> "none", input |-> "", ids |-> <<>>]
NoRet == [op |-> "none", val |-> "none", http |-> FALSE, err |-> "none"]

\* values of the variables a specification does not exercise
ObjIdle ==
    /\ backend = "bitnet" /\ initialized = TRUE /\ n_seq_max = 8 /\ batch_size = 1
    /\ seq_counter = 0 /\ detected_language = "" /\ verbs_extracted = FALSE
    /\ kv = [s \in 0..7 |-> {}]
CallIdle ==
    /\ pc = "idle" /\ call = NoCall /\ current_seq = -1 /\ n_prompt_tokens = 0
    /\ i_tok = 0 /\ gen_count = 0 /\ clears = 0 /\ stale = FALSE
    /\ ret = NoRet /\ ncalls = 0 /\ nfail = 0
    /\ init_ret = -1 /\ language = "" /\ last_ok = ""
OverlapIdle == thr = <<>>
NoFile == [exists |-> FALSE, lines |-> <<>>]
ConfigIdle == file = NoFile /\ line_no = 0 /\ current_section = <<>>
              /\ config = [unset |-> TRUE]
EngineIdle == batches = <<>>
VerbIdle == verb_memo = <<>> /\ computed = <<>> /\ verbs = <<>>
ExtraIdle == held = <<>> /\ OverlapIdle /\ ConfigIdle /\ EngineIdle /\ VerbIdle
ReplyIdle == response_buf = <<>> /\ match_ret = -1 /\ ExtraIdle

(***************************************************************************)
(* SpecDict: get_word_string on the encodings of synthetic tables.         *)
(***************************************************************************)
InitDict ==
    /\ ObjIdle /\ CallIdle /\ ReplyIdle
    /\ table \in GoodTables \cup BadTables
    /\ dictionary_data = Encode(table)
    /\ buffer = ZeroBuffer
    /\ word_id = -1
    /\ gws = NoResult

\* one call get_word_string(llm, id); the static buffer keeps what the
\* previous call left in it. A call that wrote outside the buffer ends
\* the run.
Resolve ==
    /\ gws.kind \notin {"oob_write", "oob_read"}
    /\ \E id \in QueryIds :
         /\ word_id' = id
         /\ gws' = get_word_string(dictionary_data, id, buffer)
         /\ buffer' = gws'.buf
    /\ UNCHANGED <<objVars, callVars, replyVars, dictionary_data, table>>

NextDict == Resolve
SpecDict == InitDict /\ [][NextDict]_vars

\* C8: on a well-formed dictionary every stored id resolves to exactly the
\* word that was encoded under it, prefix compression included, whatever
\* the previous call left in the static buffer, and an id that no record
\* holds resolves to not found; "look" stored under id 5 in the section
\* of the letter L resolves from 5.
C8_RoundTrip ==
    (WellFormed(table) /\ gws.kind # "none") =>
        /\ IF word_id \in IdsOf(table)
           THEN gws.kind = "found" /\ gws.word = WordOf(table, word_id)
           ELSE gws.kind = "notfound" /\ gws.word = <<>>
        /\ (table.l # <<>> /\ word_id = 5) => gws.word = LOOK

\* a word that shares three characters with "look" was resolved from a
\* table that also has a section for the letter A
C8_Witness ==
    /\ WellFormed(table)
    /\ Len(table.l) = 2 /\ table.l[2].p = 3
    /\ word_id = 6
    /\ gws.kind = "found"
    /\ gws.word = <<108, 111, 111, 116>>
    /\ table.a # <<>>

\* C9: for any dictionary bytes the codec indexes its 64-byte buffer only
\* at 0..63 (violated: a record whose prefix byte is 64 or more makes
\* buffer[len] = '\0' write at index len >= 64).
C9_BufferIndexInRange == gws.kind # "oob_write"


(***************************************************************************)
(* The yes/no decision on a reply (character codes, no NUL inside).        *)
(***************************************************************************)
MaxReply == 4       \* characters of an enumerated reply

YES == <<121, 101, 115>>                \* "yes"

\* tolower((unsigned char)c) in the C locale
tolower(c) == IF c >= 65 /\ c <= 90 THEN c + 32 ELSE c

\* ' ', '\n', '\r', '\t': the characters the trimming loops skip
IsTrimmed(c) == c \in {32, 10, 13, 9}

\* the tolower mapping left out: every character is kept as it is
keep_case(resp) == resp

\* the loop "response_buf[i] = tolower(response_buf[i])"
lowercase(resp) == [k \in 1..Len(resp) |-> tolower(resp[k])]

\* "while (*trimmed == ' ' || ...) trimmed++": the rest of the string
\* from the first character that is not skipped
RECURSIVE trimmed(_)
trimmed(resp) ==
    IF resp # <<>> /\ IsTrimmed(Head(resp)) THEN trimmed(Tail(resp)) ELSE resp

\* strncmp(str, lit, Len(lit)) == 0
strncmp_eq(str, lit) == Len(str) >= Len(lit) /\ SubSeq(str, 1, Len(lit)) = lit

\* strstr(str, lit) != NULL
strstr_found(str, lit) ==
    \E k \in 1..Len(str) :
        k + Len(lit) - 1 <= Len(str) /\ SubSeq(str, k, k + Len(lit) - 1) = lit

\* the tail of bitnet_matches_expected and llamacpp_matches_expected:
\* 1 for "yes", 0 for "no", 0 for anything else
local_decision(resp) ==
    LET t == trimmed(lowercase(resp)) IN
    IF strncmp_eq(t, YES) THEN 1
    ELSE IF strncmp_eq(t, <<110, 111>>) THEN 0
    ELSE 0

\* the tail of cloud_matches_expected; len <= 0 is the empty reply
cloud_decision(resp) ==
    IF Len(resp) <= 0 THEN 0
    ELSE IF strstr_found(resp, YES) THEN 1 ELSE 0

Backends == {"bitnet", "llamacpp", "cloud"}
LocalBackends == {"bitnet", "llamacpp"}

\* replies: every string of up to MaxReply characters over a small
\* alphabet, and some longer ones
ReplyAlphabet == {32, 89, 121, 101, 115, 110, 111}     \* ' ' Y y e s n o
LongReplies ==
    { <<110, 111, 32, 121, 101, 115>>,                  \* "no yes"
      <<78, 111, 44, 32, 116, 104, 97, 116, 39, 115, 32, 100, 105, 102,
        102, 101, 114, 101, 110, 116, 46>>,             \* "No, that's different."
      <<10, 9, 13, 32, 89, 69, 83, 33>>,                \* "\n\t\r YES!"
      <<109, 97, 121, 98, 101>>,                        \* "maybe"
      <<121, 101, 115, 116, 101, 114, 100, 97, 121>> }  \* "yesterday"
Replies == SeqsUpTo(ReplyAlphabet, MaxReply) \cup LongReplies

(***************************************************************************)
(* SpecMatch: the decision of each backend variant on every reply.         *)
(***************************************************************************)
InitMatch ==
    /\ backend \in Backends
    /\ initialized = TRUE /\ n_seq_max = 8 /\ batch_size = 1
    /\ seq_counter = 0 /\ detected_language = "" /\ verbs_extracted = FALSE
    /\ kv = [s \in 0..7 |-> {}]
    /\ CallIdle
    /\ table = [a |-> <<>>, l |-> <<>>] /\ dictionary_data = <<>>
    /\ buffer = ZeroBuffer /\ word_id = -1 /\ gws = NoResult
    /\ response_buf \in Replies
    /\ match_ret = -1 /\ ExtraIdle

DecideLocal ==
    /\ backend \in LocalBackends
    /\ match_ret = -1
    /\ match_ret' = local_decision(response_buf)
    /\ UNCHANGED <<objVars, callVars, dictVars, response_buf, extraVars>>

DecideCloud ==
    /\ backend = "cloud"
    /\ match_ret = -1
    /\ match_ret' = cloud_decision(response_buf)
    /\ UNCHANGED <<objVars, callVars, dictVars, response_buf, extraVars>>

NextMatch == DecideLocal \/ DecideCloud
SpecMatch == InitMatch /\ [][NextMatch]_vars

\* the rule of the specification, stated on the raw reply: after any
\* leading blanks come the letters y, e, s in either case
BeginsWithYes(resp) ==
    \E k \in 0..Len(resp) :
        /\ \A j \in 1..k : IsTrimmed(resp[j])
        /\ Len(resp) >= k + 3
        /\ resp[k + 1] \in {89, 121}
        /\ resp[k + 2] \in {69, 101}
        /\ resp[k + 3] \in {83, 115}

\* C5: a local variant returns match exactly when the sampled reply,
\* lowercased and with leading whitespace removed, starts with "yes";
\* every other reply returns no match.
C5_LocalYesPrefix ==
    (backend \in LocalBackends /\ match_ret # -1) =>
        /\ match_ret \in {0, 1}
        /\ (match_ret = 1) <=> BeginsWithYes(response_buf)

\* a reply with upper-case letters behind leading blanks was accepted
C5_Witness ==
    /\ backend \in LocalBackends
    /\ response_buf = <<10, 9, 13, 32, 89, 69, 83, 33>>
    /\ match_ret = 1

\* C6: the cloud variant returns match only if the reply, trimmed and
\* case-folded, begins with "yes"; a reply that begins with anything else
\* returns no match even if "yes" comes later (violated: the variant
\* accepts every reply that contains "yes" anywhere).
C6_CloudYesPrefix ==
    (backend = "cloud" /\ match_ret = 1) => BeginsWithYes(response_buf)


(***************************************************************************)
(* SpecLang: the classification of the text that language detection        *)
(* sampled (local variants) or received (cloud variant).                   *)
(***************************************************************************)
ENGLISH == <<69, 110, 103, 108, 105, 115, 104>>
SPANISH == <<83, 112, 97, 110, 105, 115, 104>>
FRENCH == <<70, 114, 101, 110, 99, 104>>
GERMAN == <<71, 101, 114, 109, 97, 110>>
ITALIAN == <<73, 116, 97, 108, 105, 97, 110>>
PORTUGUESE == <<80, 111, 114, 116, 117, 103, 117, 101, 115, 101>>
RUSSIAN == <<82, 117, 115, 115, 105, 97, 110>>
JAPANESE == <<74, 97, 112, 97, 110, 101, 115, 101>>
CHINESE == <<67, 104, 105, 110, 101, 115, 101>>

\* the order of the strncmp chain of llama_common_detect_language
local_languages == <<ENGLISH, SPANISH, FRENCH, GERMAN, ITALIAN, PORTUGUESE,
                     RUSSIAN, JAPANESE, CHINESE>>
\* "const char *languages[] = {"Spanish", "English", ...}"
cloud_languages == <<SPANISH, ENGLISH, FRENCH, GERMAN, ITALIAN, PORTUGUESE,
                     RUSSIAN, JAPANESE, CHINESE>>

\* "while (*p == ' ' || *p == '\n') p++;" and its cloud counterpart
RECURSIVE skip_leading(_, _)
skip_leading(p, blanks) ==
    IF p # <<>> /\ Head(p) \in blanks THEN skip_leading(Tail(p), blanks)
    ELSE p

\* "end = p + strlen(p) - 1; while (end > p && (*end == ...)) *end-- = 0;":
\* the first character is never removed
RECURSIVE strip_after_first(_, _)
strip_after_first(p, marks) ==
    IF Len(p) > 1 /\ p[Len(p)] \in marks
    THEN strip_after_first(SubSeq(p, 1, Len(p) - 1), marks)
    ELSE p

\* "end = p + strlen(p); while (end > p) { end--; if (*end == ...) *end = 0;
\* else break; }": the first character may be removed as well
RECURSIVE strip_trailing(_, _)
strip_trailing(p, marks) ==
    IF Len(p) > 0 /\ p[Len(p)] \in marks
    THEN strip_trailing(SubSeq(p, 1, Len(p) - 1), marks)
    ELSE p

local_trim(detected) ==
    strip_after_first(skip_leading(detected, {32, 10}), {32, 10, 46})
cloud_trim(detected) ==
    strip_trailing(skip_leading(detected, {32, 10, 13, 9}),
                   {32, 10, 13, 9, 46})

\* "strlen(p) > 2 && strlen(p) < 32"
any_length(n) == TRUE
acceptable_length(n) == n > 2 /\ n < 32

\* the first of the indexes of a list at which a test holds, 0 if none
first_hit(hits) ==
    IF hits = {} THEN 0 ELSE CHOOSE k \in hits : \A j \in hits : k <= j

\* the if / else-if chain of llama_common_detect_language (and of
\* llm_detect_language) on the trimmed text p
local_language(p) ==
    LET k == first_hit({j \in 1..Len(local_languages) :
                            strncmp_eq(p, local_languages[j])}) IN
    IF k # 0 THEN local_languages[k]
    ELSE IF acceptable_length(Len(p)) THEN p
    ELSE ENGLISH

\* the strstr loop of cloud_detect_language on the trimmed text p
cloud_language(p) ==
    LET k == first_hit({j \in 1..Len(cloud_languages) :
                            strstr_found(p, cloud_languages[j])}) IN
    IF k # 0 THEN cloud_languages[k] ELSE ENGLISH

\* texts that detection may sample: a name or another word, behind and
\* before blanks, periods and line ends
DUTCH == <<68, 117, 116, 99, 104>>
Filler(n) == [k \in 1..n |-> 120]
LangCores ==
    {local_languages[k] : k \in 1..Len(local_languages)} \cup
    { DUTCH, <<110, 111>>, <<>>, <<46>>,
      <<101, 110, 103, 108, 105, 115, 104>>,          \* "english"
      ENGLISH \o <<109, 97, 110>>,                    \* "Englishman"
      <<78, 111, 116, 32>> \o SPANISH,                \* "Not Spanish"
      Filler(31), Filler(32),
      Filler(20) \o <<32>> \o GERMAN \o <<32>> \o Filler(10) }
LangLead == {<<>>, <<32>>, <<10>>, <<9>>}
LangTrail == {<<>>, <<46>>, <<32, 10>>, <<46, 13>>}
SampledTexts ==
    {a \o c \o b : a \in LangLead, c \in LangCores, b \in LangTrail}

InitLang ==
    /\ backend \in {"bitnet", "cloud"}
    /\ initialized = TRUE /\ n_seq_max = 8 /\ batch_size = 1
    /\ seq_counter = 0 /\ detected_language = <<>> /\ verbs_extracted = FALSE
    /\ kv = [s \in 0..7 |-> {}]
    /\ CallIdle
    /\ table = [a |-> <<>>, l |-> <<>>] /\ dictionary_data = <<>>
    /\ buffer = ZeroBuffer /\ word_id = -1 /\ gws = NoResult
    /\ response_buf \in SampledTexts
    /\ match_ret = -1 /\ ExtraIdle

\* the end of a detection: the language is stored in the cache and
\* "return state->detected_language;"
Detected(lang) ==
    /\ pc = "idle" /\ pc' = "done"
    /\ detected_language' = lang
    /\ ret' = [op |-> "detect", val |-> lang, http |-> backend = "cloud",
               err |-> "none"]
    /\ UNCHANGED <<backend, initialized, n_seq_max, batch_size, seq_counter,
                   verbs_extracted, kv, call, current_seq, n_prompt_tokens,
                   i_tok, gen_count, clears, stale, ncalls, nfail, histVars,
                   dictVars, replyVars>>

\* llama_common_detect_language after its sampling loop
llama_common_classify ==
    /\ backend = "bitnet"
    /\ Detected(local_language(local_trim(response_buf)))

\* cloud_detect_language after a request that returned text (len > 0)
cloud_classify ==
    /\ backend = "cloud" /\ Len(response_buf) > 0
    /\ Detected(cloud_language(cloud_trim(response_buf)))

NextLang == llama_common_classify \/ cloud_classify
SpecLang == InitLang /\ [][NextLang]_vars

\* the text the variant classifies
TrimmedText == IF backend = "cloud" THEN cloud_trim(response_buf)
               ELSE local_trim(response_buf)

\* the supported names
Supported == {local_languages[k] : k \in 1..Len(local_languages)}

\* C15: the trimmed text is classified so: if it matches a supported
\* name (here: begins with it, case-sensitively) the result is that name;
\* otherwise if its length is more than 2 and less than 32 the result is
\* the text itself; otherwise "English"; the result is returned and stored
\* in the cache (violated: the cloud variant never keeps an unlisted text,
\* and finds a name anywhere in the text).
C15_Classification ==
    pc = "done" =>
        /\ ret.val = detected_language
        /\ LET t == TrimmedText
               names == {n \in Supported : strncmp_eq(t, n)} IN
           IF names # {} THEN detected_language \in names
           ELSE IF Len(t) > 2 /\ Len(t) < 32 THEN detected_language = t
           ELSE detected_language = ENGLISH

MaxHeld == 2        \* results the caller keeps

MIRA == <<109, 105, 114, 97>>
COGE == <<99, 111, 103, 101>>
FreshInputs == {<<>>, MIRA, COGE}
\* sampled texts: "look", " Look\n", "get"
FreshReplies == {LOOK, <<32, 76, 111, 111, 107, 10>>, <<103, 101, 116>>}

\* the trimming loops run once only: at most one character goes at each end
trim_one_each(text) ==
    lowercase(IF text # <<>> /\ IsTrimmed(Head(text))
              THEN (IF Len(text) > 2 /\ IsTrimmed(text[Len(text)])
                    THEN SubSeq(text, 2, Len(text) - 1) ELSE Tail(text))
              ELSE (IF Len(text) > 1 /\ IsTrimmed(text[Len(text)])
                    THEN SubSeq(text, 1, Len(text) - 1) ELSE text))

\* "Normalize: trim whitespace and lowercase" at the end of the
\* extraction functions
normalize(text) ==
    lowercase(strip_after_first(trimmed(text), {32, 10, 13, 9}))

InitFresh ==
    /\ backend \in Backends
    /\ initialized \in BOOLEAN /\ n_seq_max = 8 /\ batch_size = 1
    /\ seq_counter = 0 /\ detected_language = "" /\ verbs_extracted = TRUE
    /\ kv = [s \in 0..7 |-> {}]
    /\ CallIdle
    /\ table = [a |-> <<>>, l |-> <<>>] /\ dictionary_data = <<>>
    /\ buffer = ZeroBuffer /\ word_id = -1 /\ gws = NoResult
    /\ response_buf = <<>> /\ match_ret = -1 /\ held = <<>>
    /\ OverlapIdle /\ ConfigIdle /\ EngineIdle /\ VerbIdle

freshFixed == <<objVars, callVars, dictVars, match_ret, overlapVars, configVars,
                engineVars, verbVars>>

\* the caller keeps what the call returned: the pointer and the text it
\* read through it when the call returned
Keep(arg, ptr, text) ==
    /\ Len(held) < MaxHeld
    /\ held' = Append(held, [arg |-> arg, ptr |-> ptr, text |-> text])

\* an extraction that returns its argument: backend not ready, empty
\* input, tokenization or prompt decode failed, request failed
extract_returns_input ==
    /\ \E input \in FreshInputs : Keep(input, "input", input)
    /\ UNCHANGED <<freshFixed, response_buf>>

\* an extraction that reaches the end of the function: the sampled or
\* received text is in response_buf, normalized, and
\* "return response_buf;"
extract_returns_buffer ==
    /\ initialized
    /\ \E input \in FreshInputs \ {<<>>}, reply \in FreshReplies :
         /\ response_buf' = normalize(reply)
         /\ Keep(input, "response_buf", response_buf')
    /\ UNCHANGED freshFixed

\* cloud_extract_words when the reply has an empty content: extract_content
\* has stored the terminator in response_buf, and "if (len <= 0) return
\* input;"
cloud_extract_empty ==
    /\ backend = "cloud" /\ initialized
    /\ response_buf' = <<>>
    /\ \E input \in FreshInputs \ {<<>>} : Keep(input, "input", input)
    /\ UNCHANGED freshFixed

\* matches_expected and generate_response write to a buffer of their own
\* and to the caller's output
other_pipeline_call ==
    /\ match_ret = -1 /\ held # <<>>
    /\ \E v \in {0, 1} : match_ret' = v
    /\ UNCHANGED <<objVars, callVars, dictVars, response_buf, extraVars>>

NextFresh ==
    \/ extract_returns_input
    \/ extract_returns_buffer
    \/ cloud_extract_empty
    \/ other_pipeline_call
SpecFresh == InitFresh /\ [][NextFresh]_vars

\* what the caller reads now through a result it kept
Deref(h) == IF h.ptr = "response_buf" THEN response_buf ELSE h.text

\* C18: the text of a result of extract_words is not changed by
\* any later pipeline call: every result the caller kept still reads as it
\* did when it was returned (violated: every call returns the same static
\* buffer, which the next extraction overwrites).
C18_ResultsFresh ==
    \A k \in 1..Len(held) : Deref(held[k]) = held[k].text


(***************************************************************************)
(* SpecNorm: the normalizer at the end of the extraction functions, on     *)
(* every short text over blanks and letters of both cases, and again on    *)
(* its own output.                                                         *)
(***************************************************************************)
MaxText == 4        \* characters of a text in response_buf
MaxPass == 2        \* times the normalizer runs on the buffer

\* ' ', tab, LF, CR, 'A', 'Z', 'a'
NormChars == {32, 9, 10, 13, 65, 90, 97}
NormTexts == UNION {[1..n -> NormChars] : n \in 0..MaxText}

InitNorm ==
    /\ backend \in Backends
    /\ initialized = TRUE /\ n_seq_max = 8 /\ batch_size = 1
    /\ seq_counter = 0 /\ detected_language = "" /\ verbs_extracted = TRUE
    /\ kv = [s \in 0..7 |-> {}]
    /\ CallIdle
    /\ table = [a |-> <<>>, l |-> <<>>] /\ dictionary_data = <<>>
    /\ buffer = ZeroBuffer /\ word_id = -1 /\ gws = NoResult
    /\ response_buf \in NormTexts /\ match_ret = -1 /\ held = <<>>
    /\ OverlapIdle /\ ConfigIdle /\ EngineIdle /\ VerbIdle

\* the lines from "char *trimmed = response_buf;" to the memmove: the
\* caller keeps the text before and the text after
normalize_buffer ==
    /\ Len(held) < MaxPass
    /\ response_buf' = normalize(response_buf)
    /\ held' = Append(held, [arg |-> response_buf, ptr |-> "response_buf",
                             text |-> response_buf'])
    /\ UNCHANGED freshFixed

\* bitnet_extract_words, llamacpp_extract_words, nagi_llm_extract_words
local_normalize == backend \in LocalBackends /\ normalize_buffer

\* cloud_extract_words: "if (len <= 0) return input;" comes first
cloud_normalize == backend = "cloud" /\ response_buf # <<>> /\ normalize_buffer

NextNorm == local_normalize \/ cloud_normalize
SpecNorm == InitNorm /\ [][NextNorm]_vars

\* no blank at either end and no upper-case letter
Normal(text) ==
    /\ text # <<>> => ~IsTrimmed(text[1]) /\ ~IsTrimmed(text[Len(text)])
    /\ \A k \in 1..Len(text) : ~(text[k] >= 65 /\ text[k] <= 90)

\* C21: the normalizer returns its own output unchanged, and returns any
\* text that is already trimmed and lower-case unchanged; its output has no
\* blank at either end and no upper-case letter.
C21_Idempotent ==
    \A k \in 1..Len(held) :
        /\ Normal(held[k].text)
        /\ Normal(held[k].arg) => held[k].text = held[k].arg
        /\ k > 1 => (held[k].arg = held[k - 1].text
                     /\ held[k].text = held[k].arg)

\* the normalizer ran twice on " A\n" and on its output "a"
C21_Witness ==
    /\ Len(held) = 2
    /\ held[1].arg = <<32, 65, 10>> /\ held[1].text = <<97>>
    /\ held[2].arg = <<97>> /\ held[2].text = <<97>>


(***************************************************************************)
(* Spec: one backend object through its life: init, set_dictionary,        *)
(* shutdown and the pipeline calls. A call on a local backend is a         *)
(* sequence of steps (pc); a call on the cloud backend is one step. A call *)
(* ends at "done" with its return value in ret; the caller then goes on.   *)
(***************************************************************************)
MaxCalls == 9       \* slot assignments between init and shutdown
MaxPrompt == 2      \* tokens of a tokenized prompt
MaxGen == 1         \* tokens generated by one call (the loop caps)
MaxFail == 1        \* engine failures between init and shutdown

lang_seq == 7       \* "int lang_seq = 7;"

SeqMaxChoices == {4, 8}             \* values of config.n_seq_max
BatchChoices == {1}                 \* values of config.batch_size: a prompt
                                    \* of two tokens takes two batches
Languages == {"Spanish"}
Inputs == {"", "look"}
IdLists == {<<>>, <<7>>, <<5>>}
SessionTable == [a |-> <<>>, l |-> <<[p |-> 0, s |-> LOOK, id |-> 5]>>]
SessionReplies == {YES, <<110, 111>>}       \* "yes", "no"

Slots == 0..7
EmptyKv == [s \in Slots |-> {}]

\* llama_kv_cache_seq_rm / llama_memory_seq_rm(mem, seq, -1, -1)
seq_rm_nothing(k, s) == k
seq_rm(k, s) == [k EXCEPT ![s] = {}]

\* llama_decode of a batch whose tokens all carry seq_id s
decoded(k, s, tag) == [k EXCEPT ![s] = @ \cup {tag}]

\* at the end of a call its tokens become tokens of an earlier call
Retire(k) == [s \in Slots |->
                IF "cur" \in k[s] THEN (k[s] \ {"cur"}) \cup {"old"} ELSE k[s]]

\* nagi_llm_ready / llamacpp_ready
nagi_llm_ready == initialized

\* the modulus of the rotation in the function that serves the call
seq_capacity ==
    IF call.api = "generic" THEN 8                  \* nagi_llm_extract_words
    ELSE IF backend = "llamacpp" THEN 8             \* llamacpp_*
    ELSE IF n_seq_max > 0 THEN n_seq_max ELSE 1     \* bitnet_*

\* the loop that builds expected_command from the ids with
\* get_word_string, strcat and " "
RECURSIVE expected_command(_, _, _, _)
RECURSIVE append_word(_, _, _, _)
expected_command(d, ids, buf, str) ==
    IF ids = <<>> THEN [str |-> str, buf |-> buf]
    ELSE append_word(d, Tail(ids), get_word_string(d, Head(ids), buf), str)

\* "if (word_str) { if (...) strcat(" "); strcat(word_str); }"
append_word(d, rest, r, str) ==
    expected_command(d, rest, r.buf,
        IF r.kind = "found"
        THEN (IF str # <<>> THEN str \o <<32>> ELSE str) \o r.word
        ELSE str)

fixedVars == <<backend, n_seq_max, batch_size, table, word_id, gws, replyVars>>
locals == <<current_seq, n_prompt_tokens, i_tok, gen_count, clears, stale>>

Init ==
    /\ backend \in Backends
    /\ n_seq_max \in (IF backend = "bitnet" THEN SeqMaxChoices
                      ELSE IF backend = "llamacpp" THEN {8} ELSE {0})
    /\ batch_size \in (IF backend = "cloud" THEN {1} ELSE BatchChoices)
    /\ initialized = FALSE /\ seq_counter = 0 /\ detected_language = ""
    /\ verbs_extracted = FALSE /\ kv = EmptyKv
    /\ CallIdle /\ ReplyIdle
    /\ table = SessionTable /\ dictionary_data = <<>>
    /\ buffer = ZeroBuffer /\ word_id = -1 /\ gws = NoResult

\* bitnet_init, llamacpp_init, cloud_init on an object that is not ready:
\* success gives a fresh state and engine context, failure frees the state
backend_init ==
    /\ pc = "idle" /\ ~initialized
    /\ \E ok \in BOOLEAN :
         IF ok
         THEN /\ initialized' = TRUE /\ seq_counter' = 0 /\ ncalls' = 0
              /\ nfail' = 0 /\ kv' = EmptyKv /\ detected_language' = ""
              /\ dictionary_data' = <<>>
              /\ init_ret' = 1 /\ last_ok' = ""
         ELSE /\ init_ret' = 0
              /\ UNCHANGED <<initialized, seq_counter, ncalls, nfail, kv,
                             detected_language, dictionary_data, last_ok>>
    /\ UNCHANGED <<fixedVars, locals, pc, call, ret, verbs_extracted, buffer,
                   language>>

\* bitnet_shutdown, llamacpp_shutdown, cloud_shutdown: the state is freed
backend_shutdown ==
    /\ pc = "idle" /\ initialized
    /\ initialized' = FALSE /\ seq_counter' = 0 /\ ncalls' = 0 /\ nfail' = 0
    /\ kv' = EmptyKv /\ detected_language' = "" /\ dictionary_data' = <<>>
    /\ last_ok' = ""
    /\ UNCHANGED <<fixedVars, locals, pc, call, ret, verbs_extracted, buffer,
                   init_ret, language>>

\* nagi_llm_set_dictionary / llamacpp_set_dictionary: needs a state
set_dictionary ==
    /\ pc = "idle" /\ initialized
    /\ dictionary_data = <<>>
    /\ dictionary_data' = Encode(table)
    /\ UNCHANGED <<fixedVars, locals, pc, call, ret, initialized, seq_counter,
                   ncalls, nfail, kv, detected_language, verbs_extracted,
                   buffer, histVars>>

\* a call begins
Begin(op, api, input, ids) ==
    /\ pc = "idle"
    /\ call' = [op |-> op, api |-> api, input |-> input, ids |-> ids]

\* a call returns v; h tells whether an HTTP request was made, e which
\* step of the engine failed during the call ("none": no step failed)
ReturnErr(op, v, h, e) ==
    /\ pc' = "done"
    /\ ret' = [op |-> op, val |-> v, http |-> h, err |-> e]

Return(op, v, h) == ReturnErr(op, v, h, "none")

\* the caller goes on: the locals of the call are gone
Resume ==
    /\ pc = "done"
    /\ pc' = "idle" /\ call' = NoCall /\ ret' = NoRet
    /\ current_seq' = -1 /\ clears' = 0 /\ stale' = FALSE
    /\ n_prompt_tokens' = 0 /\ i_tok' = 0 /\ gen_count' = 0
    /\ language' = ""
    /\ UNCHANGED <<fixedVars, initialized, seq_counter, ncalls, nfail, kv,
                   detected_language, dictionary_data, verbs_extracted, buffer,
                   init_ret, last_ok>>

\* what a call returns when the engine fails
Neutral(op) == IF op = "extract" THEN "input"
               ELSE IF op = "match" THEN "nomatch" ELSE "empty"

\* the part of the three extraction functions of the local backends up
\* to the prompt: ready check, empty input, extract_game_verbs
LocalExtract(api, input) ==
    /\ Begin("extract", api, input, <<>>)
    /\ seq_counter < MaxCalls
    /\ IF ~nagi_llm_ready \/ input = ""
       THEN Return("extract", "input", FALSE) /\ UNCHANGED verbs_extracted
       ELSE /\ pc' = "acquire" /\ ret' = NoRet
            /\ verbs_extracted' = (verbs_extracted \/ dictionary_data # <<>>)
    /\ UNCHANGED <<fixedVars, locals, initialized, seq_counter, ncalls, nfail,
                   kv, detected_language, dictionary_data, buffer, histVars>>

bitnet_extract_words ==
    backend = "bitnet" /\ \E input \in Inputs : LocalExtract("backend", input)

llamacpp_extract_words ==
    backend = "llamacpp" /\ \E input \in Inputs : LocalExtract("backend", input)

\* the extraction entry point of nagi_llm.c, on the state of a bitnet object
nagi_llm_extract_words ==
    backend = "bitnet" /\ \E input \in Inputs : LocalExtract("generic", input)

\* the part of bitnet_matches_expected and llamacpp_matches_expected up to
\* the prompt: ready check, empty id list, expected_command, its emptiness
LocalMatch(input, ids) ==
    /\ Begin("match", "backend", input, ids)
    /\ seq_counter < MaxCalls
    /\ IF ~nagi_llm_ready \/ Len(ids) = 0
       THEN Return("match", "nomatch", FALSE) /\ UNCHANGED buffer
       ELSE LET ec == expected_command(dictionary_data, ids, buffer, <<>>) IN
            /\ buffer' = ec.buf
            /\ IF ec.str = <<>>
               THEN Return("match", "nomatch", FALSE)
               ELSE pc' = "acquire" /\ ret' = NoRet
    /\ UNCHANGED <<fixedVars, locals, initialized, seq_counter, ncalls, nfail,
                   kv, detected_language, dictionary_data, verbs_extracted,
                   histVars>>

bitnet_matches_expected ==
    backend = "bitnet" /\ \E ids \in IdLists : LocalMatch("look", ids)

llamacpp_matches_expected ==
    backend = "llamacpp" /\ \E ids \in IdLists : LocalMatch("look", ids)

\* "state->detected_language[0] ? state->detected_language : "English""
always_english(cache) == "English"
cached_language(cache) == IF cache # "" THEN cache ELSE "English"

\* llamacpp_generate_response up to the prompt (no language detection)
llamacpp_generate_response ==
    /\ backend = "llamacpp"
    /\ \E input \in Inputs : Begin("generate", "backend", input, <<>>)
    /\ seq_counter < MaxCalls
    /\ IF ~nagi_llm_ready
       THEN Return("generate", "empty", FALSE)
       ELSE pc' = "acquire" /\ ret' = NoRet
    /\ UNCHANGED <<fixedVars, locals, initialized, seq_counter, ncalls, nfail,
                   kv, detected_language, dictionary_data, verbs_extracted,
                   buffer, histVars>>

\* bitnet_generate_response up to the language: with user input it runs
\* llama_common_detect_language, whose tokenization may fail ("English")
bitnet_generate_response ==
    /\ backend = "bitnet"
    /\ seq_counter < MaxCalls
    /\ \E input \in Inputs :
         /\ Begin("generate", "backend", input, <<>>)
         /\ IF ~nagi_llm_ready
            THEN /\ Return("generate", "empty", FALSE)
                 /\ UNCHANGED <<n_prompt_tokens, nfail, language>>
            ELSE /\ ret' = NoRet
                 /\ IF input = ""
                    THEN /\ pc' = "acquire"
                         /\ language' = cached_language(detected_language)
                         /\ UNCHANGED <<n_prompt_tokens, nfail>>
                    ELSE \E n \in {-1} \cup 1..MaxPrompt :
                           IF n < 0
                           THEN /\ nfail < MaxFail /\ nfail' = nfail + 1
                                /\ language' = "English"
                                /\ pc' = "acquire" /\ UNCHANGED n_prompt_tokens
                           ELSE /\ pc' = "det_clear" /\ n_prompt_tokens' = n
                                /\ UNCHANGED <<nfail, language>>
    /\ UNCHANGED <<fixedVars, current_seq, i_tok, gen_count, clears, stale,
                   initialized, seq_counter, ncalls, kv, detected_language,
                   dictionary_data, verbs_extracted, buffer, init_ret, last_ok>>

stepFixed == <<fixedVars, initialized, dictionary_data, verbs_extracted,
               buffer, call>>

\* llama_common_detect_language: the clear of the reserved slot before
\* the prompt
DetectClear ==
    /\ pc = "det_clear"
    /\ kv' = seq_rm(kv, lang_seq)
    /\ pc' = "det_prompt"
    /\ UNCHANGED <<stepFixed, locals, detected_language, seq_counter, ncalls,
                   nfail, ret, histVars>>

\* one iteration of its prompt loop: a batch of batch_size tokens goes to
\* slot lang_seq; a failed llama_decode returns "English" at once
DetectDecode ==
    /\ pc = "det_prompt"
    /\ \E ok \in BOOLEAN :
         IF ok
         THEN /\ kv' = decoded(kv, lang_seq, "det")
              /\ i_tok' = i_tok + batch_size
              /\ pc' = IF i_tok' >= n_prompt_tokens THEN "det_sample"
                       ELSE "det_prompt"
              /\ UNCHANGED <<n_prompt_tokens, nfail, language>>
         ELSE /\ nfail < MaxFail /\ nfail' = nfail + 1
              /\ language' = "English"
              /\ pc' = "acquire"
              /\ i_tok' = 0 /\ n_prompt_tokens' = 0
              /\ UNCHANGED kv
    /\ UNCHANGED <<stepFixed, detected_language, seq_counter, ncalls,
                   current_seq, gen_count, clears, stale, ret, init_ret,
                   last_ok>>

\* its sampling loop (no decode), the validation of the name, the store
\* into the language cache and the final clear of the reserved slot
DetectSample ==
    /\ pc = "det_sample"
    /\ detected_language' \in Languages
    /\ language' = detected_language'
    /\ last_ok' = detected_language'
    /\ kv' = seq_rm(kv, lang_seq)
    /\ pc' = "acquire"
    /\ i_tok' = 0 /\ n_prompt_tokens' = 0
    /\ UNCHANGED <<stepFixed, seq_counter, ncalls, nfail, current_seq,
                   gen_count, clears, stale, ret, init_ret>>

\* "current_seq = (state->seq_counter++) % ..."
Acquire ==
    /\ pc = "acquire"
    /\ current_seq' = seq_counter % seq_capacity
    /\ seq_counter' = seq_counter + 1
    /\ ncalls' = ncalls + 1
    /\ stale' = (kv[current_seq'] # {})
    /\ pc' = "clear"
    /\ UNCHANGED <<stepFixed, detected_language, kv, nfail, n_prompt_tokens,
                   i_tok, gen_count, clears, ret, histVars>>

\* the clear of the assigned slot
Clear ==
    /\ pc = "clear"
    /\ kv' = seq_rm(kv, current_seq)
    /\ clears' = clears + 1
    /\ pc' = "tokenize"
    /\ UNCHANGED <<stepFixed, detected_language, seq_counter, ncalls, nfail,
                   current_seq, n_prompt_tokens, i_tok, gen_count, stale, ret,
                   histVars>>

\* the end of a call after its slot was assigned
Leave(v, k, e) ==
    /\ ReturnErr(call.op, v, FALSE, e)
    /\ kv' = Retire(k)

\* an engine failure
Fails == nfail < MaxFail /\ nfail' = nfail + 1

\* tokenization of the prompt; a negative count ends the call
Tokenize ==
    /\ pc = "tokenize"
    /\ \E n \in {-1} \cup 1..MaxPrompt :
         IF n < 0
         THEN Fails /\ Leave(Neutral(call.op), kv, "tokenize")
                    /\ UNCHANGED <<n_prompt_tokens, i_tok>>
         ELSE /\ n_prompt_tokens' = n /\ i_tok' = 0 /\ pc' = "prompt"
              /\ UNCHANGED <<kv, ret, nfail>>
    /\ UNCHANGED <<stepFixed, detected_language, seq_counter, ncalls,
                   current_seq, gen_count, clears, stale, histVars>>

\* one iteration of the prompt loop: a batch of batch_size tokens goes to
\* the assigned slot; a failed llama_decode ends the call
DecodePrompt ==
    /\ pc = "prompt"
    /\ \E ok \in BOOLEAN :
         IF ok
         THEN /\ kv' = decoded(kv, current_seq, "cur")
              /\ i_tok' = i_tok + batch_size
              /\ pc' = IF i_tok' >= n_prompt_tokens THEN "sample" ELSE "prompt"
              /\ UNCHANGED <<ret, nfail>>
         ELSE Fails /\ Leave(Neutral(call.op), kv, "prompt") /\ UNCHANGED i_tok
    /\ UNCHANGED <<stepFixed, detected_language, seq_counter, ncalls,
                   current_seq, n_prompt_tokens, gen_count, clears, stale,
                   histVars>>

\* the replies that a number of pieces can spell
RepliesOf(pieces) == IF pieces = 0 THEN {<<>>} ELSE SessionReplies

\* the value a call returns after its generation loop
Result(pieces, reply) ==
    IF call.op = "extract" THEN "words"
    ELSE IF call.op = "match"
    THEN (IF local_decision(reply) = 1 THEN "match" ELSE "nomatch")
    ELSE IF pieces > 0 THEN "text" ELSE "empty"

\* one iteration of the generation loop: sample a token; end of
\* generation leaves the loop; the piece is appended; the token is decoded
\* into the assigned slot; a failed decode leaves the loop. After the loop
\* the call returns.
Sample ==
    /\ pc = "sample"
    /\ IF gen_count >= MaxGen
       THEN /\ \E reply \in RepliesOf(gen_count) :
                 Leave(Result(gen_count, reply), kv, "none")
            /\ UNCHANGED <<gen_count, nfail>>
       ELSE \E o \in {"eog", "ok", "fail"} :
              IF o = "ok"
              THEN /\ kv' = decoded(kv, current_seq, "cur")
                   /\ gen_count' = gen_count + 1
                   /\ UNCHANGED <<pc, ret, nfail>>
              ELSE /\ IF o = "fail" THEN Fails ELSE UNCHANGED nfail
                   /\ LET pieces == IF o = "fail" THEN gen_count + 1
                                    ELSE gen_count IN
                      \E reply \in RepliesOf(pieces) :
                        Leave(Result(pieces, reply), kv,
                              IF o = "fail" THEN "generate" ELSE "none")
                   /\ UNCHANGED gen_count
    /\ UNCHANGED <<stepFixed, detected_language, seq_counter, ncalls,
                   current_seq, n_prompt_tokens, i_tok, clears, stale,
                   histVars>>

cloudFixed == <<fixedVars, locals, initialized, seq_counter, ncalls, nfail,
                kv, dictionary_data>>

\* nagi_llm_cloud_generate on a ready backend makes one request and
\* returns -1 when curl fails or the reply has no content field, else the
\* length of the content: 0, or more
CloudOutcomes == {"error", "empty", "text"}

\* which step failed, for the return record
http_err(o) == IF o = "error" THEN "http" ELSE "none"

\* cloud_extract_words: no ready check; extract_game_verbs reads
\* state->dictionary_data unless its memo is set, and state is NULL on an
\* object that is not ready: the read faults or yields anything; then
\* nagi_llm_cloud_generate, which makes no request without backend data;
\* "if (len <= 0) return input;"
cloud_extract_words ==
    /\ backend = "cloud"
    /\ \E input \in Inputs :
         /\ Begin("extract", "backend", input, <<>>)
         /\ IF input = ""
            THEN Return("extract", "input", FALSE) /\ UNCHANGED verbs_extracted
            ELSE \E outcome \in {"fault", "reads_null", "reads_data"},
                    o \in CloudOutcomes :
                   IF ~verbs_extracted /\ ~initialized /\ outcome = "fault"
                   THEN /\ pc' = "fault"
                        /\ ret' = [op |-> "extract", val |-> "fault",
                                   http |-> FALSE, err |-> "none"]
                        /\ UNCHANGED verbs_extracted
                   ELSE /\ verbs_extracted' =
                             (\/ verbs_extracted
                              \/ initialized /\ dictionary_data # <<>>
                              \/ ~initialized /\ outcome = "reads_data")
                        /\ IF ~initialized
                           THEN Return("extract", "input", FALSE)
                           ELSE ReturnErr("extract",
                                          IF o = "text" THEN "words"
                                          ELSE "input", TRUE, http_err(o))
    /\ UNCHANGED <<cloudFixed, detected_language, buffer, histVars>>

\* cloud_matches_expected: the ids are resolved, then the request is made
\* whatever resolved; "if (len <= 0) return 0;" and the decision is taken
\* on the reply
cloud_matches_expected ==
    /\ backend = "cloud"
    /\ \E ids \in IdLists :
         /\ Begin("match", "backend", "look", ids)
         /\ buffer' = expected_command(dictionary_data, ids, buffer, <<>>).buf
         /\ IF ~initialized
            THEN Return("match", "nomatch", FALSE)
            ELSE \E o \in CloudOutcomes, reply \in SessionReplies :
                   ReturnErr("match",
                             IF o = "text" /\ cloud_decision(reply) = 1
                             THEN "match" ELSE "nomatch", TRUE, http_err(o))
    /\ UNCHANGED <<cloudFixed, detected_language, verbs_extracted, histVars>>

\* cloud_generate_response: cloud_detect_language (one request when the
\* backend is ready and there is user input; a request that fails leaves
\* the cache alone), then "return nagi_llm_cloud_generate(...)": the length
\* of the text, or -1 when the request fails or the backend has no data
cloud_generate_response ==
    /\ backend = "cloud"
    /\ \E input \in Inputs :
         /\ Begin("generate", "backend", input, <<>>)
         /\ IF ~initialized
            THEN /\ Return("generate", "negative", FALSE)
                 /\ language' = "English"
                 /\ UNCHANGED <<detected_language, last_ok>>
            ELSE /\ IF input = ""
                    THEN /\ language' = cached_language(detected_language)
                         /\ UNCHANGED <<detected_language, last_ok>>
                    ELSE \E d \in CloudOutcomes, r \in Languages :
                           IF d = "text"
                           THEN /\ detected_language' = r
                                /\ language' = cached_language(r)
                                /\ last_ok' = r
                           ELSE /\ language' = cached_language(detected_language)
                                /\ UNCHANGED <<detected_language, last_ok>>
                 /\ \E o \in CloudOutcomes :
                      ReturnErr("generate",
                                IF o = "text" THEN "text"
                                ELSE IF o = "empty" THEN "empty"
                                ELSE "negative", TRUE, http_err(o))
    /\ UNCHANGED <<cloudFixed, verbs_extracted, buffer, init_ret>>

Next ==
    \/ backend_init
    \/ backend_shutdown
    \/ set_dictionary
    \/ Resume
    \/ bitnet_extract_words
    \/ llamacpp_extract_words
    \/ nagi_llm_extract_words
    \/ bitnet_matches_expected
    \/ llamacpp_matches_expected
    \/ bitnet_generate_response
    \/ llamacpp_generate_response
    \/ DetectClear
    \/ DetectDecode
    \/ DetectSample
    \/ Acquire
    \/ Clear
    \/ Tokenize
    \/ DecodePrompt
    \/ Sample
    \/ cloud_extract_words
    \/ cloud_matches_expected
    \/ cloud_generate_response

Spec == Init /\ [][Next]_vars

\* a slot is assigned to the running call
SlotAssigned == pc \in {"clear", "tokenize", "prompt", "sample"}

\* C1: in every extraction, match and generation call that reaches the
\* engine the assigned slot is cleared exactly once, after it is acquired
\* and before the call writes its first token; so at every prompt and
\* sampling step the slot holds only tokens of the current call.
C1_ClearedBeforeWrite ==
    /\ pc = "clear" => clears = 0 /\ "cur" \notin kv[current_seq]
    /\ pc \in {"tokenize", "prompt", "sample"} =>
           clears = 1 /\ kv[current_seq] \subseteq {"cur"}
    /\ (pc = "done" /\ current_seq # -1) => clears = 1

\* a call samples on a slot that held an earlier call's tokens when it
\* was assigned, after decoding a token of its own
C1_Witness ==
    /\ pc = "sample" /\ stale /\ clears = 1 /\ gen_count >= 1
    /\ kv[current_seq] = {"cur"}

\* C2: the k-th call since init that passes its precondition checks is
\* assigned slot (k-1) mod N, N the pool size of the context (violated:
\* nagi_llm_extract_words rotates modulo 8 whatever N is).
C2_RoundRobin ==
    SlotAssigned => current_seq = (ncalls - 1) % n_seq_max

\* C3: the slot that language detection uses is never assigned by the
\* rotation to an extraction, match or generation call of the backend that
\* runs the detection (violated: with a pool of 8 the rotation assigns
\* slot 7).
C3_ReservedSlotNotAssigned ==
    (backend = "bitnet" /\ call.api = "backend" /\ SlotAssigned) =>
        current_seq # lang_seq

\* C4: language detection clears the reserved slot again before it
\* returns on every exit path, so the slot holds no detection tokens
\* whenever detection is not running (violated: a failed decode returns
\* without the clear).
C4_ReservedSlotEmpty ==
    pc \notin {"det_clear", "det_prompt", "det_sample"} =>
        "det" \notin kv[lang_seq]

\* an expected id resolves when a dictionary is set and holds it
Resolves(id) == dictionary_data # <<>> /\ id \in IdsOf(table)

\* C7: when no expected id resolves (no dictionary, empty list,
\* unknown ids) matches_expected returns no match with no slot acquired and
\* no engine run or HTTP request (violated: the cloud variant makes the
\* request and decides on the reply).
C7_NoResolveNoWork ==
    (/\ pc = "done" /\ call.op = "match"
     /\ \A k \in 1..Len(call.ids) : ~Resolves(call.ids[k])) =>
        ret.val = "nomatch" /\ current_seq = -1 /\ ~ret.http

\* C10: extract_words on a backend that is not ready, or with empty
\* input, returns the input with no fault, no slot acquired and no request
\* (violated: the cloud variant on an object that is not ready reads
\* through the NULL state).
C10_NotReadyOrEmptyEchoes ==
    (/\ call.op = "extract" /\ pc \in {"done", "fault"}
     /\ (~initialized \/ call.input = "")) =>
        pc = "done" /\ ret.val = "input" /\ current_seq = -1 /\ ~ret.http

\* C11: an extraction call in which tokenization or a decode failed,
\* in the prompt run or in the generation loop, returns the original input
\* (violated: a decode that fails in the generation loop only leaves the
\* loop, and the text sampled so far is returned).
C11_ExtractFailureEchoes ==
    (pc = "done" /\ call.op = "extract" /\ ret.err # "none") =>
        ret.val = "input"

\* C12: a match call in which tokenization or a decode failed returns
\* no match, whatever was sampled before the failure (violated: after a
\* failed decode in the generation loop the sampled text is classified, and
\* "yes" gives match).
C12_MatchFailureNoMatch ==
    (pc = "done" /\ call.op = "match" /\ ret.err # "none") =>
        ret.val = "nomatch"

\* C13: a generation call in which the engine failed (tokenize, decode,
\* or the HTTP request of the cloud variant) returns 0: no partial text, no
\* negative value (violated: the local variants return the length of the
\* text sampled before a failed decode, the cloud variant returns -1).
C13_GenerateFailureZero ==
    (pc = "done" /\ call.op = "generate" /\ ret.err # "none") =>
        ret.val = "empty"

\* C14: after an init that returned failure the backend is not ready
\* and every pipeline call returns its neutral default (input, no match, 0)
\* with no fault, no slot and no request (violated: the cloud variant
\* returns -1 from generate_response and reads through the NULL state in
\* extract_words).
C14_FailedInitNeutral ==
    init_ret = 0 =>
        /\ ~nagi_llm_ready
        /\ pc # "fault"
        /\ pc = "done" =>
              /\ ret.val = Neutral(ret.op)
              /\ ~ret.http /\ current_seq = -1

context_sequences == Max(1, n_seq_max)

\* the calls that run language detection pass lang_seq to the engine
Detecting == pc \in {"det_clear", "det_prompt", "det_sample"}

\* C22: every slot id passed to the engine by a pipeline call
\* of a local backend, the one of language detection included, is below
\* the number of sequences of the context (violated: detection uses slot 7
\* and nagi_llm_extract_words rotates modulo 8 whatever the number is).
C22_SlotInRange ==
    backend \in LocalBackends =>
        /\ SlotAssigned => current_seq \in 0..(context_sequences - 1)
        /\ Detecting => lang_seq \in 0..(context_sequences - 1)

(***************************************************************************)
(* SpecOverlap: two callers use one ready bitnet object at the same time.  *)
(* The pipeline functions take no lock, so the steps of                    *)
(* bitnet_extract_words and bitnet_generate_response (with                 *)
(* llama_common_detect_language) of the two calls interleave freely.       *)
(* "state->seq_counter++" is a load and a store; strcpy into               *)
(* state->detected_language stores one character at a time.                *)
(***************************************************************************)
MaxOverlap == 2     \* slot assignments of the overlapping callers

LangBufSize == 32   \* "char detected_language[32];"
Callers == {1, 2}
OverlapLanguages == {SPANISH, FRENCH}

NoThread == [pc |-> "idle", tmp |-> -1, current_seq |-> -1, lang |-> <<>>,
             w |-> 0]

InitOverlap ==
    /\ backend = "bitnet" /\ initialized = TRUE
    /\ n_seq_max = 8 /\ batch_size = 1
    /\ seq_counter = 0 /\ verbs_extracted = TRUE
    /\ detected_language = [k \in 1..LangBufSize |-> 0]
    /\ kv = EmptyKv
    /\ CallIdle
    /\ table = SessionTable /\ dictionary_data = <<>>
    /\ buffer = ZeroBuffer /\ word_id = -1 /\ gws = NoResult
    /\ response_buf = <<>> /\ match_ret = -1 /\ held = <<>> /\ ConfigIdle
    /\ EngineIdle /\ VerbIdle
    /\ thr = [t \in Callers |-> NoThread]

overlapFixed == <<backend, initialized, n_seq_max, batch_size,
                  verbs_extracted, callVars, dictVars, response_buf,
                  match_ret, held, configVars, engineVars, verbVars>>

\* caller t moves to pc q with the fields f of its record replaced
Step(t, p, q) == thr[t].pc = p /\ thr' = [thr EXCEPT ![t].pc = q]

\* bitnet_extract_words up to the rotation
overlap_extract(t) ==
    /\ seq_counter < MaxOverlap
    /\ Step(t, "idle", "load")
    /\ UNCHANGED <<overlapFixed, seq_counter, kv, detected_language>>

\* bitnet_generate_response with player text: detection comes first
overlap_generate(t) ==
    /\ seq_counter < MaxOverlap
    /\ Step(t, "idle", "det_clear")
    /\ UNCHANGED <<overlapFixed, seq_counter, kv, detected_language>>

\* llama_common_detect_language: the clear of the reserved slot
overlap_det_clear(t) ==
    /\ Step(t, "det_clear", "det_decode")
    /\ kv' = seq_rm(kv, lang_seq)
    /\ UNCHANGED <<overlapFixed, seq_counter, detected_language>>

\* its prompt batch goes to the reserved slot; then the name is sampled
overlap_det_decode(t) ==
    /\ thr[t].pc = "det_decode"
    /\ \E l \in OverlapLanguages :
         thr' = [thr EXCEPT ![t].pc = "det_store", ![t].lang = l, ![t].w = 0]
    /\ kv' = decoded(kv, lang_seq, t)
    /\ UNCHANGED <<overlapFixed, seq_counter, detected_language>>

\* "strcpy(state->detected_language, ...)": one character, at the end the
\* terminator
overlap_det_store(t) ==
    /\ thr[t].pc = "det_store"
    /\ LET w == thr[t].w
           l == thr[t].lang IN
       /\ detected_language' =
              [detected_language EXCEPT
                  ![w + 1] = IF w < Len(l) THEN l[w + 1] ELSE 0]
       /\ thr' = [thr EXCEPT ![t].w = w + 1,
                             ![t].pc = IF w < Len(l) THEN "det_store"
                                       ELSE "det_final"]
    /\ UNCHANGED <<overlapFixed, seq_counter, kv>>

\* the clear of the reserved slot at the end of the detection
overlap_det_final(t) ==
    /\ Step(t, "det_final", "load")
    /\ kv' = seq_rm(kv, lang_seq)
    /\ UNCHANGED <<overlapFixed, seq_counter, detected_language>>

\* "state->seq_counter++ % seq_capacity": the load
overlap_load(t) ==
    /\ thr[t].pc = "load"
    /\ thr' = [thr EXCEPT ![t].pc = "store", ![t].tmp = seq_counter]
    /\ UNCHANGED <<overlapFixed, seq_counter, kv, detected_language>>

\* the store of the incremented value, and the slot of the call
overlap_store(t) ==
    /\ thr[t].pc = "store"
    /\ seq_counter' = thr[t].tmp + 1
    /\ thr' = [thr EXCEPT ![t].pc = "clear",
                          ![t].current_seq = thr[t].tmp % seq_capacity]
    /\ UNCHANGED <<overlapFixed, kv, detected_language>>

\* the clear of the assigned slot
overlap_clear(t) ==
    /\ Step(t, "clear", "prompt")
    /\ kv' = seq_rm(kv, thr[t].current_seq)
    /\ UNCHANGED <<overlapFixed, seq_counter, detected_language>>

\* the prompt batch
overlap_prompt(t) ==
    /\ Step(t, "prompt", "sample")
    /\ kv' = decoded(kv, thr[t].current_seq, t)
    /\ UNCHANGED <<overlapFixed, seq_counter, detected_language>>

\* the generation loop: the sampled token is decoded; the call returns
overlap_sample(t) ==
    /\ Step(t, "sample", "done")
    /\ kv' = decoded(kv, thr[t].current_seq, t)
    /\ UNCHANGED <<overlapFixed, seq_counter, detected_language>>

\* the caller goes on
overlap_resume(t) ==
    /\ thr[t].pc = "done"
    /\ thr' = [thr EXCEPT ![t] = NoThread]
    /\ UNCHANGED <<overlapFixed, seq_counter, kv, detected_language>>

NextOverlap ==
    \E t \in Callers :
        \/ overlap_extract(t)
        \/ overlap_generate(t)
        \/ overlap_det_clear(t)
        \/ overlap_det_decode(t)
        \/ overlap_det_store(t)
        \/ overlap_det_final(t)
        \/ overlap_load(t)
        \/ overlap_store(t)
        \/ overlap_clear(t)
        \/ overlap_prompt(t)
        \/ overlap_sample(t)
        \/ overlap_resume(t)

SpecOverlap == InitOverlap /\ [][NextOverlap]_vars

\* caller t is between the start of its call and its return
InSection(t) == thr[t].pc \notin {"idle", "done"}

\* caller t holds a counter value
HasSlot(t) == thr[t].pc \in {"clear", "prompt", "sample", "done"}

\* at most one call is in its section
OneWriter == ~(InSection(1) /\ InSection(2))

\* two calls that hold a slot got different counter values
DistinctCounter == (HasSlot(1) /\ HasSlot(2)) => thr[1].tmp # thr[2].tmp

\* while no caller is storing into it, the language cache holds nothing
\* or one whole name
WholeLanguage ==
    (\A t \in Callers : thr[t].pc # "det_store") =>
        CStr(detected_language) \in {<<>>} \cup OverlapLanguages

\* C19: when two calls overlap, the section of one is over before
\* the section of the other begins; the two calls never get the same
\* counter value; and the language cache never holds a mix of two writes
\* (violated: nothing serializes the calls).
C19_Serialized == OneWriter /\ DistinctCounter /\ WholeLanguage

(***************************************************************************)
(* SpecConfig: nagi_llm_load_config on small configuration files. A file   *)
(* is a sequence of lines; each line is the text that fgets returns,       *)
(* together with what the line means (header of a section, key and value,  *)
(* or nothing). The parser works on the text only. Fields of type float    *)
(* are held in tenths (0.9 is 9).                                          *)
(***************************************************************************)
MaxLines == 4       \* lines of a configuration file

\* section names and keys, as the strcmp calls spell them
S_COMMON == <<99, 111, 109, 109, 111, 110>>
S_CLOUD == <<99, 108, 111, 117, 100>>
S_BITNET == <<98, 105, 116, 110, 101, 116>>
S_LLAMACPP == <<108, 108, 97, 109, 97, 99, 112, 112>>
K_MAX_TOKENS == <<109, 97, 120, 95, 116, 111, 107, 101, 110, 115>>
K_VERBOSE == <<118, 101, 114, 98, 111, 115, 101>>
K_N_SEQ_MAX == <<110, 95, 115, 101, 113, 95, 109, 97, 120>>
K_TOP_P == <<116, 111, 112, 95, 112>>
K_MODEL == <<109, 111, 100, 101, 108>>
K_API_KEY == <<97, 112, 105, 95, 107, 101, 121>>

\* the value of the scenario: "gpt-test"
GPT_TEST == <<103, 112, 116, 45, 116, 101, 115, 116>>

\* lines of a file as fgets returns them, each with what it means
L_COMMON == <<91, 99, 111, 109, 109, 111, 110, 93, 10>>
L_CLOUD == <<32, 91, 32, 99, 108, 111, 117, 100, 32, 93, 32, 10>>
L_BITNET == <<91, 98, 105, 116, 110, 101, 116, 93, 13, 10>>
L_MAX_TOKENS ==
    <<109, 97, 120, 95, 116, 111, 107, 101, 110, 115, 61, 54, 52, 10>>
L_MODEL ==
    <<109, 111, 100, 101, 108, 32, 61, 32, 103, 112, 116, 45, 116, 101, 115,
      116, 10>>
L_TOP_P == <<9, 116, 111, 112, 95, 112, 61, 48, 46, 53, 10>>
L_COMMENT ==
    <<35, 32, 109, 97, 120, 95, 116, 111, 107, 101, 110, 115, 61, 49, 10>>
L_UNKNOWN == <<102, 111, 111, 61, 49, 10>>

LineChoices ==
    { [kind |-> "header", name |-> "common", text |-> L_COMMON],
      [kind |-> "header", name |-> "cloud", text |-> L_CLOUD],
      [kind |-> "header", name |-> "bitnet", text |-> L_BITNET],
      [kind |-> "pair", key |-> "max_tokens", num |-> 64, str |-> <<>>,
       text |-> L_MAX_TOKENS],
      [kind |-> "pair", key |-> "model", num |-> 0, str |-> GPT_TEST,
       text |-> L_MODEL],
      [kind |-> "pair", key |-> "top_p", num |-> 5, str |-> <<>>,
       text |-> L_TOP_P],
      [kind |-> "other", text |-> L_COMMENT],
      [kind |-> "pair", key |-> "foo", num |-> 1, str |-> <<>>,
       text |-> L_UNKNOWN] }

Files == {[exists |-> TRUE, lines |-> ls] :
              ls \in UNION {[1..n -> LineChoices] : n \in 0..MaxLines}}

\* the file of the scenario
ScenarioFile ==
    << [kind |-> "header", name |-> "common", text |-> L_COMMON],
       [kind |-> "pair", key |-> "max_tokens", num |-> 64, str |-> <<>>,
        text |-> L_MAX_TOKENS],
       [kind |-> "header", name |-> "cloud", text |-> L_CLOUD],
       [kind |-> "pair", key |-> "model", num |-> 0, str |-> GPT_TEST,
        text |-> L_MODEL] >>

\* "Initialize config with defaults" (the fields the model keeps)
DefaultConfig ==
    [max_tokens |-> 512, verbose |-> 0, n_seq_max |-> 1, top_p |-> 9,
     model_path |-> <<>>, api_key |-> <<>>]

\* isspace in the C locale
Whitespace == {9, 10, 11, 12, 13, 32}

\* trim_whitespace: the leading blanks go, then the trailing ones behind
\* the first character
trim_whitespace(str) ==
    strip_after_first(skip_leading(str, Whitespace), Whitespace)

\* strchr: the index of the first c in str, 0 if there is none
strchr(str, c) ==
    IF \E k \in 1..Len(str) : str[k] = c
    THEN CHOOSE k \in 1..Len(str) :
             str[k] = c /\ \A j \in 1..(k - 1) : str[j] # c
    ELSE 0

\* strncpy(dst, src, n) followed by dst[n] = '\0'
strncpy(src, n) == SubSeq(src, 1, Min(Len(src), n))

NotHeader == [is |-> FALSE, name |-> <<>>]

\* is_section_header from "char *end = strchr(temp, ']')" on
section_name_of(temp, end, max_len) ==
    IF end = 0 THEN NotHeader
    ELSE [is |-> TRUE,
          name |-> trim_whitespace(
                       strncpy(SubSeq(temp, 2, end - 1), max_len - 1))]

\* is_section_header on the trimmed copy of the line
header_of(temp, max_len) ==
    IF temp = <<>> \/ temp[1] # 91 THEN NotHeader
    ELSE section_name_of(temp, strchr(temp, 93), max_len)

is_section_header(line, max_len) ==
    header_of(trim_whitespace(strncpy(line, 255)), max_len)

NoPair == [ok |-> FALSE, key |-> <<>>, value |-> <<>>]

\* parse_config_line from "char *eq = strchr(temp, '=')" on
pair_of(temp, eq, max_len) ==
    IF eq = 0 THEN NoPair
    ELSE [ok |-> trim_whitespace(strncpy(SubSeq(temp, 1, eq - 1),
                                         max_len - 1)) # <<>>,
          key |-> trim_whitespace(strncpy(SubSeq(temp, 1, eq - 1),
                                          max_len - 1)),
          value |-> trim_whitespace(
                        strncpy(SubSeq(temp, eq + 1, Len(temp)),
                                max_len - 1))]

\* parse_config_line on the trimmed copy of the line: empty lines,
\* comments and lines that begin with '[' are no pairs
line_pair(temp, max_len) ==
    IF temp = <<>> \/ temp[1] \in {35, 59, 91} THEN NoPair
    ELSE pair_of(temp, strchr(temp, 61), max_len)

parse_config_line(line, max_len) ==
    line_pair(trim_whitespace(strncpy(line, 1023)), max_len)

\* the number that a prefix of decimal digits spells, after acc
RECURSIVE digits_value(_, _)
digits_value(str, acc) ==
    IF str # <<>> /\ Head(str) \in 48..57
    THEN digits_value(Tail(str), acc * 10 + (Head(str) - 48))
    ELSE acc

\* what follows the prefix of decimal digits
RECURSIVE after_digits(_)
after_digits(str) ==
    IF str # <<>> /\ Head(str) \in 48..57 THEN after_digits(Tail(str))
    ELSE str

\* atoi: blanks, an optional sign, digits
atoi_zero(value) == 0
signed_digits(str) ==
    IF str # <<>> /\ Head(str) = 45 THEN 0 - digits_value(Tail(str), 0)
    ELSE IF str # <<>> /\ Head(str) = 43 THEN digits_value(Tail(str), 0)
    ELSE digits_value(str, 0)
atoi(value) == signed_digits(skip_leading(value, Whitespace))

\* atof, in tenths: the integer part and the first digit of the fraction
fraction_tenths(rest) ==
    IF Len(rest) >= 2 /\ rest[1] = 46 /\ rest[2] \in 48..57
    THEN rest[2] - 48 ELSE 0
atof(value) ==
    digits_value(skip_leading(value, Whitespace), 0) * 10
    + fraction_tenths(after_digits(skip_leading(value, Whitespace)))

\* the switch on the backend: the name of its section
backend_section ==
    IF backend = "llamacpp" THEN S_LLAMACPP
    ELSE IF backend = "bitnet" THEN S_BITNET
    ELSE IF backend = "cloud" THEN S_CLOUD
    ELSE <<>>

\* the strcmp chain under "common"
common_settings(cfg, key, value) ==
    IF key = K_MAX_TOKENS THEN [cfg EXCEPT !.max_tokens = atoi(value)]
    ELSE IF key = K_VERBOSE THEN [cfg EXCEPT !.verbose = atoi(value)]
    ELSE cfg

\* the strcmp chains under the section of the backend
backend_settings(cfg, key, value) ==
    IF backend \in {"llamacpp", "bitnet"}
    THEN (IF key = K_TOP_P THEN [cfg EXCEPT !.top_p = atof(value)]
          ELSE IF key = K_N_SEQ_MAX
          THEN [cfg EXCEPT !.n_seq_max = atoi(value)]
          ELSE cfg)
    ELSE IF backend = "cloud"
    THEN (IF key = K_API_KEY
          THEN [cfg EXCEPT !.api_key = strncpy(value, 255)]
          ELSE IF key = K_MODEL
          THEN [cfg EXCEPT !.model_path = strncpy(value, 255)]
          ELSE cfg)
    ELSE cfg

\* "if (strcmp(current_section, "common") == 0) ... else if (...)"
apply_pair(cfg, section, pair) ==
    IF ~pair.ok THEN cfg
    ELSE IF section = S_COMMON
    THEN common_settings(cfg, pair.key, pair.value)
    ELSE IF section = backend_section
    THEN backend_settings(cfg, pair.key, pair.value)
    ELSE cfg

InitConfig ==
    /\ backend \in Backends \cup {"undefined"}
    /\ initialized = FALSE /\ n_seq_max = 8 /\ batch_size = 1
    /\ seq_counter = 0 /\ detected_language = "" /\ verbs_extracted = FALSE
    /\ kv = EmptyKv
    /\ CallIdle
    /\ table = SessionTable /\ dictionary_data = <<>>
    /\ buffer = ZeroBuffer /\ word_id = -1 /\ gws = NoResult
    /\ response_buf = <<>> /\ match_ret = -1 /\ held = <<>> /\ OverlapIdle
    /\ EngineIdle /\ VerbIdle
    /\ file \in Files \cup {NoFile}
    /\ line_no = 0 /\ current_section = <<>>
    /\ config = [unset |-> TRUE]

configFixed == <<backend, initialized, n_seq_max, batch_size, seq_counter,
                 detected_language, verbs_extracted, kv, call, current_seq,
                 n_prompt_tokens, i_tok, gen_count, clears, stale, ncalls,
                 nfail, histVars, dictVars, response_buf, match_ret, held,
                 overlapVars, engineVars, verbVars, file>>

\* nagi_llm_load_config up to the loop: the defaults, then fopen
open_config ==
    /\ pc = "idle"
    /\ config' = DefaultConfig
    /\ IF ~file.exists
       THEN /\ pc' = "done"
            /\ ret' = [op |-> "load_config", val |-> 0, http |-> FALSE,
                       err |-> "none"]
       ELSE pc' = "reading" /\ UNCHANGED ret
    /\ UNCHANGED <<configFixed, line_no, current_section>>

\* one iteration of the fgets loop
read_header(h, line) ==
    IF h.is
    THEN /\ current_section' = strncpy(h.name, 63)
         /\ UNCHANGED config
    ELSE /\ config' = apply_pair(config, current_section,
                                 parse_config_line(line, 128))
         /\ UNCHANGED current_section

read_line ==
    /\ pc = "reading" /\ line_no < Len(file.lines)
    /\ line_no' = line_no + 1
    /\ read_header(is_section_header(file.lines[line_no + 1].text, 64),
                   file.lines[line_no + 1].text)
    /\ UNCHANGED <<configFixed, pc, ret>>

\* fgets returns NULL: fclose and "return 1;"
end_of_file ==
    /\ pc = "reading" /\ line_no = Len(file.lines)
    /\ pc' = "done"
    /\ ret' = [op |-> "load_config", val |-> 1, http |-> FALSE,
               err |-> "none"]
    /\ UNCHANGED <<configFixed, line_no, current_section, config>>

NextConfig == open_config \/ read_line \/ end_of_file
SpecConfig == InitConfig /\ [][NextConfig]_vars

\* ---- what the file means, line by line

\* the keys of the common section and of the section of a backend, with
\* the field each one sets
FieldOf(section, b) ==
    IF section = "common"
    THEN [max_tokens |-> "max_tokens", verbose |-> "verbose"]
    ELSE IF b \notin Backends \/ section # b THEN <<>>
    ELSE IF b = "cloud" THEN [model |-> "model_path", api_key |-> "api_key"]
    ELSE [top_p |-> "top_p", n_seq_max |-> "n_seq_max"]

\* the fields that hold text; a pair means its number for the others
StringFields == {"model_path", "api_key"}
ValueFor(field, l) == IF field \in StringFields THEN l.str ELSE l.num

\* the Config after the lines, read under the most recent header
RECURSIVE Meaning(_, _, _, _)
Meaning(lines, section, cfg, b) ==
    IF lines = <<>> THEN cfg
    ELSE LET l == Head(lines) IN
         IF l.kind = "header" THEN Meaning(Tail(lines), l.name, cfg, b)
         ELSE IF l.kind = "pair" /\ l.key \in DOMAIN FieldOf(section, b)
         THEN Meaning(Tail(lines), section,
                      [cfg EXCEPT ![FieldOf(section, b)[l.key]] =
                                      ValueFor(FieldOf(section, b)[l.key], l)],
                      b)
         ELSE Meaning(Tail(lines), section, cfg, b)

\* C20: a key=value line changes the Config only under [common]
\* (common keys) or under the section of the requested backend (its keys);
\* lines under other sections or before any header and unknown keys change
\* nothing; fields not set keep their defaults; the scenario file gives
\* max_tokens 64, model_path "gpt-test", top_p 0.9 for cloud; a missing
\* file gives the defaults.
C20_LoadConfig ==
    /\ pc = "reading" =>
           config = Meaning(SubSeq(file.lines, 1, line_no), "none",
                            DefaultConfig, backend)
    /\ pc = "done" =>
           config = (IF ~file.exists THEN DefaultConfig
                     ELSE Meaning(file.lines, "none", DefaultConfig, backend))
    /\ (pc = "done" /\ file.lines = ScenarioFile /\ backend = "cloud") =>
           /\ config.max_tokens = 64
           /\ config.model_path = GPT_TEST
           /\ config.top_p = 9

\* the scenario file was loaded for the cloud backend
C20_Witness ==
    /\ pc = "done" /\ file.lines = ScenarioFile /\ backend = "cloud"
    /\ ret.val = 1
    /\ config = [DefaultConfig EXCEPT !.max_tokens = 64,
                                      !.model_path = GPT_TEST]

(***************************************************************************)
(* SpecCall: one pipeline call, or one language detection, of a local      *)
(* backend, batch by batch and token by token. The engine context keeps,   *)
(* for each slot, the positions that hold a token; batches is what         *)
(* llama_decode accepted during the call.                                  *)
(***************************************************************************)
MaxP == 4           \* tokens of a tokenized prompt
MaxBatch == 3       \* config.batch_size
MaxTokens == 2      \* config.max_tokens

max_extract_tokens == 10        \* "max_extract_tokens = 10;"
max_detect_tokens == 15         \* "for (int i = 0; i < 15 && ..."
max_response_tokens == 150      \* "max_response_tokens = 150;"

CallOps == {"extract", "match", "generate", "detect"}

\* slots that earlier calls left tokens in
UsedKv == [s \in Slots |-> 0..2]

\* every loop runs up to the cap of the response loop
response_cap(op) == max_response_tokens

\* the cap in the condition of the sampling loop
token_cap(op) ==
    IF op = "extract" THEN max_extract_tokens
    ELSE IF op = "detect" THEN max_detect_tokens
    ELSE IF op = "match" THEN config.max_tokens
    ELSE max_response_tokens

\* the positions start again at 0 after the prompt
gen_pos_restart(P, g) == g

\* "batch_gen.pos[0] = n_prompt_tokens + gen_count;"
gen_pos(P, g) == P + g

\* the batch that the prompt loop fills at i: n_eval tokens, positions
\* i + k, logits for the last token of the prompt only
prompt_batch(i) ==
    [k \in 1..Min(batch_size, n_prompt_tokens - i) |->
        [pos |-> i + k - 1, seq |-> current_seq,
         logits |-> (i + k - 1 = n_prompt_tokens - 1)]]

\* the batch of one generated token
gen_batch ==
    << [pos |-> gen_pos(n_prompt_tokens, gen_count), seq |-> current_seq,
        logits |-> TRUE] >>

\* the piece of a sampled token: "\n" or "a"
piece_of(o) == IF o = "newline" THEN <<10>> ELSE <<97>>

\* llama_decode: every token of the batch goes to its slot at its position
decode_batch(k, b) ==
    [s \in Slots |-> k[s] \cup {b[j].pos : j \in {i \in 1..Len(b) : b[i].seq = s}}]

InitCall ==
    /\ backend \in LocalBackends
    /\ initialized = TRUE
    /\ n_seq_max \in (IF backend = "bitnet" THEN {2, 8} ELSE {8})
    /\ batch_size \in 1..MaxBatch
    /\ seq_counter = 9
    /\ detected_language = "" /\ verbs_extracted = TRUE
    /\ kv \in {EmptyKv, UsedKv}
    /\ pc = "idle"
    /\ call \in {[op |-> "none", api |-> a, input |-> "look", ids |-> <<>>] :
                    a \in (IF backend = "bitnet" /\ n_seq_max = 8
                           THEN {"backend", "generic"} ELSE {"backend"})}
    /\ current_seq = -1 /\ n_prompt_tokens = 0 /\ i_tok = 0 /\ gen_count = 0
    /\ clears = 0 /\ stale = FALSE /\ ret = NoRet /\ ncalls = 0 /\ nfail = 0
    /\ init_ret = 1 /\ language = "" /\ last_ok = ""
    /\ table = SessionTable /\ dictionary_data = <<>>
    /\ buffer = ZeroBuffer /\ word_id = -1 /\ gws = NoResult
    /\ response_buf = <<>> /\ match_ret = -1 /\ held = <<>> /\ OverlapIdle
    /\ EngineIdle /\ VerbIdle
    /\ file = NoFile /\ line_no = 0 /\ current_section = <<>>
    /\ config \in {[max_tokens |-> m] : m \in {0, MaxTokens}}

callFixed == <<backend, initialized, n_seq_max, batch_size, verbs_extracted,
               clears, stale, ncalls, nfail, histVars, dictVars, match_ret,
               held, overlapVars, configVars, verbVars>>

\* what a call returns when a step fails; detection returns "English"
NeutralOf(op) == IF op = "detect" THEN "English" ELSE Neutral(op)

\* the call returns v; e tells why it ended
call_ends(v, e) ==
    /\ pc' = "done"
    /\ ret' = [op |-> call.op, val |-> v, http |-> FALSE, err |-> e]

\* the entry of a call up to its first engine step: a pipeline call takes
\* its slot from the counter, detection takes lang_seq and allocates first
call_start ==
    /\ pc = "idle" /\ call.op = "none"
    /\ \E op \in CallOps :
         /\ call.api = "generic" => op \in {"extract", "detect"}
         /\ call' = [op |-> op, api |-> call.api, input |-> call.input,
                     ids |-> call.ids,
                     before |-> [seq_counter |-> seq_counter, kv |-> kv,
                                 lang |-> detected_language]]
         /\ IF op = "detect"
            THEN /\ current_seq' = lang_seq /\ pc' = "alloc"
                 /\ UNCHANGED seq_counter
            ELSE /\ current_seq' = seq_counter % seq_capacity
                 /\ seq_counter' = seq_counter + 1
                 /\ pc' = "clear"
    /\ UNCHANGED <<callFixed, kv, detected_language, n_prompt_tokens, i_tok,
                   gen_count, ret, batches, response_buf>>

\* the clear of the slot before the prompt
clear_slot ==
    /\ pc = "clear"
    /\ kv' = seq_rm(kv, current_seq)
    /\ pc' = IF call.op = "detect" THEN "prompt" ELSE "alloc"
    /\ UNCHANGED <<callFixed, call, seq_counter, detected_language,
                   current_seq, n_prompt_tokens, i_tok, gen_count, ret,
                   batches, response_buf>>

\* "tokens = (llama_token *)malloc(...)": the result is not tested, and
\* the tokenizer stores the tokens of the prompt through it
alloc_tokens ==
    /\ pc = "alloc"
    /\ \E ok \in BOOLEAN :
         IF ok THEN pc' = "tokenize" /\ UNCHANGED ret
         ELSE /\ pc' = "fault"
              /\ ret' = [op |-> call.op, val |-> "fault", http |-> FALSE,
                         err |-> "alloc"]
    /\ UNCHANGED <<callFixed, call, kv, seq_counter, detected_language,
                   current_seq, n_prompt_tokens, i_tok, gen_count, batches,
                   response_buf>>

\* LLAMA_TOKENIZE: a negative count ends the call
tokenize_prompt ==
    /\ pc = "tokenize"
    /\ \E n \in {-1} \cup 1..MaxP :
         IF n < 0
         THEN call_ends(NeutralOf(call.op), "tokenize")
              /\ UNCHANGED n_prompt_tokens
         ELSE /\ n_prompt_tokens' = n
              /\ pc' = IF call.op = "detect" THEN "clear" ELSE "prompt"
              /\ UNCHANGED ret
    /\ UNCHANGED <<callFixed, call, kv, seq_counter, detected_language,
                   current_seq, i_tok, gen_count, batches, response_buf>>

\* one iteration of "for (int i = 0; i < n_prompt_tokens; i +=
\* llm->config.batch_size)"
decode_prompt_batch ==
    /\ pc = "prompt"
    /\ \E ok \in BOOLEAN :
         IF ok
         THEN /\ batches' = Append(batches, prompt_batch(i_tok))
              /\ kv' = decode_batch(kv, prompt_batch(i_tok))
              /\ i_tok' = i_tok + batch_size
              /\ pc' = IF i_tok' < n_prompt_tokens THEN "prompt" ELSE "sample"
              /\ UNCHANGED ret
         ELSE /\ call_ends(NeutralOf(call.op), "prompt")
              /\ UNCHANGED <<batches, kv, i_tok>>
    /\ UNCHANGED <<callFixed, call, seq_counter, detected_language,
                   current_seq, n_prompt_tokens, gen_count, response_buf>>

\* the end of a call after its sampling loop: detection stores the
\* language and clears its slot
loop_ends(e) ==
    /\ call_ends("result", e)
    /\ IF call.op = "detect"
       THEN /\ detected_language' \in Languages
            /\ kv' = seq_rm(kv, current_seq)
       ELSE UNCHANGED <<detected_language, kv>>
    /\ UNCHANGED <<gen_count, batches>>

\* one iteration of the sampling loop: sample; end of generation leaves
\* the loop; the piece is appended (response_buf holds the last one);
\* extraction and detection leave the loop if strchr(piece, '\n') finds a
\* newline (the piece is not terminated, so it may find one behind the
\* piece: "behind"); the other calls and extraction decode the token.
sample_token ==
    /\ pc = "sample"
    /\ IF gen_count >= token_cap(call.op)
       THEN loop_ends("cap") /\ UNCHANGED response_buf
       ELSE \E o \in {"eog", "newline", "behind", "plain", "fail"} :
              IF o = "eog" THEN loop_ends("eog") /\ UNCHANGED response_buf
              ELSE /\ response_buf' = piece_of(o)
                   /\ IF call.op \in {"extract", "detect"}
                         /\ o \in {"newline", "behind"}
                      THEN loop_ends(o)
                      ELSE IF call.op = "detect"
                      THEN /\ o = "plain"
                           /\ gen_count' = gen_count + 1
                           /\ UNCHANGED <<pc, ret, kv, detected_language,
                                          batches>>
                      ELSE IF o = "fail" THEN loop_ends("generate")
                      ELSE /\ o # "behind"
                           /\ batches' = Append(batches, gen_batch)
                           /\ kv' = decode_batch(kv, gen_batch)
                           /\ gen_count' = gen_count + 1
                           /\ UNCHANGED <<pc, ret, detected_language>>
    /\ UNCHANGED <<callFixed, call, seq_counter, current_seq,
                   n_prompt_tokens, i_tok>>

NextCall ==
    \/ call_start
    \/ clear_slot
    \/ alloc_tokens
    \/ tokenize_prompt
    \/ decode_prompt_batch
    \/ sample_token
SpecCall == InitCall /\ [][NextCall]_vars

\* the tokens that llama_decode accepted in the call, in order
RECURSIVE Flatten(_)
Flatten(bs) == IF bs = <<>> THEN <<>> ELSE Head(bs) \o Flatten(Tail(bs))

\* the batches of the prompt and those of the generation loop
PromptBatches == {j \in 1..Len(batches) : batches[j][1].pos < n_prompt_tokens}
GenBatches == {j \in 1..Len(batches) : batches[j][1].pos >= n_prompt_tokens}

CeilDiv(a, b) == (a + b - 1) \div b

\* the tokens are at positions 0, 1, 2, ... of the slot of the call, and
\* of the tokens of the prompt only the last one asks for logits
InOrder(flat) ==
    \A n \in 1..Len(flat) :
        /\ flat[n].pos = n - 1
        /\ flat[n].seq = current_seq
        /\ n <= n_prompt_tokens => flat[n].logits = (n = n_prompt_tokens)

\* C23: the tokens written in a call go to its slot at positions
\* 0, 1, 2, ... in order, without gap or repeat; the prompt goes in batches
\* of at most batch_size tokens and only its last token asks for logits; the
\* i-th generated token that is written has position P + i; the other slots
\* are not touched, whatever they hold.
C23_Positions ==
    call.op # "none" =>
        /\ InOrder(Flatten(batches))
        /\ \A j \in PromptBatches : Len(batches[j]) <= batch_size
        /\ \A j \in GenBatches : Len(batches[j]) = 1
        /\ Cardinality(GenBatches) = (IF call.op = "detect" THEN 0 ELSE gen_count)
        /\ GenBatches # {} => Len(Flatten(batches)) = n_prompt_tokens + gen_count
        /\ \A s \in Slots \ {current_seq} : kv[s] = call.before.kv[s]

\* a generation call wrote a prompt of 4 tokens in batches of 3 and 1 and
\* then two tokens, into a context whose other slots hold tokens
C23_Witness ==
    /\ pc = "done" /\ call.op = "generate" /\ batch_size = 3
    /\ n_prompt_tokens = 4 /\ gen_count = 2 /\ Len(batches) = 4
    /\ Len(batches[1]) = 3 /\ Len(batches[2]) = 1
    /\ batches[4][1].pos = 5
    /\ call.before.kv = UsedKv /\ kv[current_seq] = 0..5

\* C24: a call whose token buffer cannot be allocated returns its
\* neutral default without a fault and leaves the counter, the slots and
\* the language cache as they were before the call (violated: the result of
\* malloc is not tested, and the pipeline calls have taken and cleared
\* their slot before).
C24_AllocFailureNeutral ==
    ret.err = "alloc" =>
        /\ pc = "done" /\ ret.val = NeutralOf(call.op)
        /\ seq_counter = call.before.seq_counter
        /\ kv = call.before.kv
        /\ detected_language = call.before.lang

\* the most tokens a call of each kind may sample
StatedCap ==
    IF call.op = "extract" THEN 10
    ELSE IF call.op = "detect" THEN 15
    ELSE IF call.op = "match" THEN Max(0, config.max_tokens)
    ELSE 150

\* C30: with a batch size of at least 1 the prompt takes
\* ceil(P / batch_size) batches, and the sampling loop runs at most 10 times
\* for extraction, 15 for detection, max_tokens for matching, 150 for
\* generation; extraction and detection end at a token with a newline;
\* every step of a call moves it forward, so a call ends within
\* ceil(P / batch_size) + cap engine steps.
C30_Bounded ==
    /\ batch_size >= 1
    /\ Cardinality(PromptBatches) <= CeilDiv(n_prompt_tokens, batch_size)
    /\ (pc = "sample" \/ GenBatches # {}) =>
           Cardinality(PromptBatches) = CeilDiv(n_prompt_tokens, batch_size)
    /\ call.op # "none" =>
           /\ gen_count <= StatedCap
           /\ Cardinality(GenBatches) <= StatedCap
           /\ Len(batches) <= CeilDiv(n_prompt_tokens, batch_size)
                              + StatedCap
    /\ (pc = "done" /\ ret.err = "cap") =>
           gen_count = StatedCap
    /\ (call.op \in {"extract", "detect"} /\ response_buf = <<10>>) =>
           pc = "done" /\ ret.err = "newline"

\* a generation call ran into its cap of 150 tokens after a prompt of 4
\* tokens in 2 batches
C30_Witness ==
    /\ pc = "done" /\ call.op = "generate" /\ ret.err = "cap"
    /\ gen_count = max_response_tokens
    /\ n_prompt_tokens = 4 /\ batch_size = 3
    /\ Cardinality(PromptBatches) = 2
    /\ Len(batches) = 152

(***************************************************************************)
(* SpecCloud: one request of the cloud backend: nagi_llm_cloud_generate    *)
(* for each outcome of the HTTP exchange, then the function that called    *)
(* it. A well-formed body carries "content":"E", E the JSON-escaped form   *)
(* of a text, as escape_json_string writes it.                             *)
(***************************************************************************)
MaxJson == 4        \* characters of the text in a reply

EscapeBufSize == 8192           \* "static char buffer[8192];"

\* '"', '\', LF, CR, tab, 'a', 'n'
JsonChars == {34, 92, 10, 13, 9, 97, 110}
JsonTexts == UNION {[1..n -> JsonChars] : n \in 0..MaxJson}

\* sizeof(detected) in cloud_detect_language, and a small caller's buffer
OutputSizes == {3, 64}

\* "content":"
CONTENT_KEY == <<34, 99, 111, 110, 116, 101, 110, 116, 34, 58, 34>>

\* what the loop of escape_json_string writes for one character
escaped_char(c) ==
    IF c = 34 \/ c = 92 THEN <<92, c>>
    ELSE IF c = 10 THEN <<92, 110>>
    ELSE IF c = 13 THEN <<92, 114>>
    ELSE IF c = 9 THEN <<92, 116>>
    ELSE <<c>>

\* escape_json_string: "while (*str && (out - buffer) < sizeof(buffer) - 2)"
RECURSIVE escape_from(_, _)
escape_from(str, out) ==
    IF str = <<>> \/ Len(out) >= EscapeBufSize - 2 THEN out
    ELSE escape_from(Tail(str), out \o escaped_char(Head(str)))

escape_json_string(str) == escape_from(str, <<>>)

\* a reply {"role":"assistant","content":"E"}
BodyOf(E) ==
    <<123, 34, 114, 111, 108, 101, 34, 58, 34, 97, 34, 44>>
    \o CONTENT_KEY \o E \o <<34, 125>>

\* a reply without the field: {"error":"a"}
ErrorBody == <<123, 34, 101, 114, 114, 111, 114, 34, 58, 34, 97, 34, 125>>

\* strstr(str, lit): the index of the first occurrence, 0 if none
strstr_at(str, lit) ==
    IF strstr_found(str, lit)
    THEN CHOOSE k \in 1..Len(str) :
             /\ k + Len(lit) - 1 <= Len(str)
             /\ SubSeq(str, k, k + Len(lit) - 1) = lit
             /\ \A j \in 1..(k - 1) :
                    ~(j + Len(lit) - 1 <= Len(str)
                      /\ SubSeq(str, j, j + Len(lit) - 1) = lit)
    ELSE 0

\* "while (*content_end && *content_end != '"')": the index of the
\* closing quote, or one past the end
RECURSIVE content_end(_, _)
content_end(json, p) ==
    IF p > Len(json) \/ json[p] = 34 THEN p
    ELSE IF json[p] = 92 /\ p + 1 <= Len(json) THEN content_end(json, p + 2)
    ELSE content_end(json, p + 1)

\* the character is kept as it is after a backslash
unescaped_plain(c) == c

\* the character after a backslash
unescaped(c) ==
    IF c = 110 THEN 10 ELSE IF c = 114 THEN 13 ELSE IF c = 116 THEN 9 ELSE c

\* the loop "for (int i = 0; i < len; i++)" over content_start[0..len-1]
RECURSIVE unescape_from(_, _, _, _)
unescape_from(c, i, len, out) ==
    IF i >= len THEN out
    ELSE IF c[i + 1] = 92 /\ i + 1 < len
    THEN unescape_from(c, i + 2, len, Append(out, unescaped(c[i + 2])))
    ELSE unescape_from(c, i + 1, len, Append(out, c[i + 1]))

\* extract_content from "content_start += 11" on: start is the index of
\* the first character of the value
content_from(json, start, output_size) ==
    unescape_from(SubSeq(json, start, Len(json)), 0,
                  Min(content_end(json, start) - start, output_size - 1),
                  <<>>)

\* extract_content: the length it returns and the text it leaves in output
extract_at(json, at, output_size) ==
    IF at = 0 THEN [len |-> -1, output |-> <<>>, written |-> 0]
    ELSE [len |-> Len(content_from(json, at + 11, output_size)),
          output |-> content_from(json, at + 11, output_size),
          written |-> Len(content_from(json, at + 11, output_size)) + 1]

extract_content(json, output_size) ==
    extract_at(json, strstr_at(json, CONTENT_KEY), output_size)

HttpOutcomes == {"error", "empty_body", "no_content", "body"}
CloudOps == {"extract", "match", "generate", "detect"}

InitCloud ==
    /\ backend = "cloud"
    /\ initialized \in BOOLEAN /\ n_seq_max = 0 /\ batch_size = 1
    /\ seq_counter = 0 /\ detected_language = "" /\ verbs_extracted = TRUE
    /\ kv = EmptyKv
    /\ pc = "idle"
    /\ call \in {[op |-> op, api |-> "backend", input |-> "look",
                  ids |-> <<>>, size |-> n, outcome |-> "none",
                  text |-> <<>>] : op \in CloudOps, n \in OutputSizes}
    /\ current_seq = -1 /\ n_prompt_tokens = 0 /\ i_tok = 0 /\ gen_count = 0
    /\ clears = 0 /\ stale = FALSE /\ ret = NoRet /\ ncalls = 0 /\ nfail = 0
    /\ init_ret = -1 /\ language = "" /\ last_ok = ""
    /\ table = SessionTable /\ dictionary_data = <<>>
    /\ buffer = ZeroBuffer /\ word_id = -1 /\ gws = NoResult
    /\ ReplyIdle

cloudCallFixed == <<objVars, current_seq, n_prompt_tokens, i_tok, gen_count,
                    clears, stale, ncalls, nfail, histVars, dictVars,
                    extraVars>>

\* the request was made: what extract_content returned and left in output
request_returns(o, text, r) ==
    /\ call' = [call EXCEPT !.outcome = o, !.text = text]
    /\ match_ret' = r.len
    /\ response_buf' = r.output
    /\ pc' = "returned"
    /\ UNCHANGED ret

\* nagi_llm_cloud_generate: -1 without backend data; after
\* curl_easy_perform, -1 on a transport error; else extract_content on
\* response.data, which is NULL if no byte was received
nagi_llm_cloud_generate ==
    /\ pc = "idle"
    /\ IF ~initialized
       THEN request_returns("none", <<>>, extract_at(<<>>, 0, call.size))
       ELSE \E o \in HttpOutcomes :
              IF o = "error"
              THEN request_returns(o, <<>>, extract_at(<<>>, 0, call.size))
              ELSE IF o = "empty_body"
              THEN /\ pc' = "fault"
                   /\ call' = [call EXCEPT !.outcome = o]
                   /\ ret' = [op |-> call.op, val |-> "fault", http |-> TRUE,
                              err |-> "none"]
                   /\ UNCHANGED <<match_ret, response_buf>>
              ELSE IF o = "no_content"
              THEN request_returns(o, <<>>,
                                   extract_content(ErrorBody, call.size))
              ELSE \E text \in JsonTexts :
                     request_returns(o, text,
                         extract_content(BodyOf(escape_json_string(text)),
                                         call.size))
    /\ UNCHANGED cloudCallFixed

\* the function that made the request: cloud_extract_words ("if (len <=
\* 0) return input;"), cloud_matches_expected ("return 0;"),
\* cloud_detect_language (the cache or "English"), cloud_generate_response
\* ("return nagi_llm_cloud_generate(...)")
cloud_caller ==
    /\ pc = "returned"
    /\ pc' = "done"
    /\ ret' = [op |-> call.op,
               val |-> IF call.op = "generate"
                       THEN (IF match_ret < 0 THEN "negative"
                             ELSE IF match_ret = 0 THEN "empty" ELSE "result")
                       ELSE IF match_ret <= 0 THEN NeutralOf(call.op)
                       ELSE "result",
               http |-> initialized,
               err |-> IF call.outcome \in {"error", "no_content"}
                       THEN "http" ELSE "none"]
    /\ UNCHANGED <<cloudCallFixed, call, match_ret, response_buf>>

NextCloud == nagi_llm_cloud_generate \/ cloud_caller
SpecCloud == InitCloud /\ [][NextCloud]_vars

\* C25: whatever the HTTP exchange gives (transport error, empty
\* body, body without content, well-formed body), the request returns the
\* text or a negative error without a fault and writes at most output_size
\* bytes, and on an error the calling function returns its neutral default
\* (violated: an empty body leaves response.data NULL for strstr, and
\* cloud_generate_response returns the negative error).
C25_HttpOutcomes ==
    /\ pc # "fault"
    /\ pc \in {"returned", "done"} =>
           /\ match_ret = -1 \/ match_ret = Len(response_buf)
           /\ Len(response_buf) + 1 <= call.size
           /\ call.outcome = "body" => match_ret >= 0
    /\ (pc = "done" /\ match_ret < 0) => ret.val = NeutralOf(call.op)

\* C26: the content of a body that carries the escaped form of a
\* text comes back as that text, with its length, whenever the escaped form
\* fits the output.
C26_RoundTrip ==
    (pc \in {"returned", "done"} /\ call.outcome = "body"
     /\ Len(escape_json_string(call.text)) < call.size) =>
        /\ response_buf = call.text
        /\ match_ret = Len(call.text)

\* the text '"', '\', LF, 'n' came back from its escaped form
C26_Witness ==
    /\ pc = "done" /\ call.outcome = "body"
    /\ call.text = <<34, 92, 10, 110>>
    /\ call.size = 64
    /\ response_buf = <<34, 92, 10, 110>> /\ match_ret = 4

(***************************************************************************)
(* SpecJoin: the loop of matches_expected that joins the words of the      *)
(* expected ids into "char expected_command[256]" (expected_str in the     *)
(* cloud variant) with strcat.                                             *)
(***************************************************************************)
MaxIds == 5         \* expected word ids of a call

ExpectedSize == 256             \* "char expected_command[256];"

\* a dictionary with "look" (id 5) and a word of 62 characters (id 6)
LongTail == [k \in 1..58 |-> 115]
JoinTable == [a |-> <<>>,
              l |-> <<[p |-> 0, s |-> LOOK, id |-> 5],
                      [p |-> 4, s |-> LongTail, id |-> 6]>>]
JoinIdLists == UNION {[1..n -> {5, 6, 7}] : n \in 0..MaxIds}

InitJoin ==
    /\ backend \in Backends
    /\ initialized = TRUE /\ n_seq_max = 8 /\ batch_size = 1
    /\ seq_counter = 0 /\ detected_language = "" /\ verbs_extracted = TRUE
    /\ kv = EmptyKv
    /\ pc = "idle"
    /\ call \in {[op |-> "match", api |-> "backend", input |-> "look",
                  ids |-> ids] : ids \in JoinIdLists}
    /\ current_seq = -1 /\ n_prompt_tokens = 0 /\ i_tok = 0 /\ gen_count = 0
    /\ clears = 0 /\ stale = FALSE /\ ret = NoRet /\ ncalls = 0 /\ nfail = 0
    /\ init_ret = 1 /\ language = "" /\ last_ok = ""
    /\ table = JoinTable /\ dictionary_data = Encode(JoinTable)
    /\ buffer = ZeroBuffer /\ word_id = -1 /\ gws = NoResult
    /\ ReplyIdle

joinFixed == <<objVars, call, current_seq, n_prompt_tokens, gen_count,
               clears, stale, ret, ncalls, nfail, histVars, dictionary_data,
               table, word_id, gws, match_ret, extraVars>>

\* one iteration of the loop: r is what get_word_string returned, sep
\* tells whether " " is appended first. The strcat calls write the phrase
\* and its terminator from the start of the array; a write behind the
\* array is undefined: the call goes on or faults
strcat_word(r, sep) ==
    /\ response_buf' = IF r.kind = "found"
                        THEN (IF sep THEN response_buf \o <<32>>
                              ELSE response_buf) \o r.word
                        ELSE response_buf
    /\ buffer' = r.buf
    /\ i_tok' = i_tok + 1
    /\ IF Len(response_buf') + 1 > ExpectedSize
       THEN pc' \in {"idle", "fault"}
       ELSE pc' = "idle"

\* bitnet_matches_expected and llamacpp_matches_expected: "if
\* (expected_command[0] != '\0') strcat(expected_command, " ");"
local_join_word ==
    /\ pc = "idle" /\ backend \in LocalBackends
    /\ i_tok < Len(call.ids)
    /\ strcat_word(get_word_string(dictionary_data, call.ids[i_tok + 1],
                                   buffer),
                   response_buf # <<>>)
    /\ UNCHANGED joinFixed

\* "if (expected_command[0] == '\0') return 0;" after the loop
local_join_ends ==
    /\ pc = "idle" /\ backend \in LocalBackends
    /\ i_tok = Len(call.ids)
    /\ pc' = IF response_buf = <<>> THEN "done" ELSE "joined"
    /\ UNCHANGED <<response_buf, buffer, i_tok, joinFixed>>

\* cloud_matches_expected: "if (i > 0) strcat(expected_str, " ");"
cloud_join_word ==
    /\ pc = "idle" /\ backend = "cloud"
    /\ i_tok < Len(call.ids)
    /\ strcat_word(get_word_string(dictionary_data, call.ids[i_tok + 1],
                                   buffer),
                   i_tok > 0)
    /\ UNCHANGED joinFixed

\* the phrase goes into the prompt as it stands
cloud_join_ends ==
    /\ pc = "idle" /\ backend = "cloud"
    /\ i_tok = Len(call.ids)
    /\ pc' = "joined"
    /\ UNCHANGED <<response_buf, buffer, i_tok, joinFixed>>

NextJoin ==
    \/ local_join_word
    \/ local_join_ends
    \/ cloud_join_word
    \/ cloud_join_ends
SpecJoin == InitJoin /\ [][NextJoin]_vars

\* the words of the ids that the table holds, in order, with one space
\* between two words
RECURSIVE Phrase(_, _)
Phrase(t, ids) ==
    IF ids = <<>> THEN <<>>
    ELSE IF Head(ids) \notin IdsOf(t) THEN Phrase(t, Tail(ids))
    ELSE IF Phrase(t, Tail(ids)) = <<>> THEN WordOf(t, Head(ids))
    ELSE WordOf(t, Head(ids)) \o <<32>> \o Phrase(t, Tail(ids))

\* C27: for any list of expected ids the phrase that
\* matches_expected builds is the resolved words joined by single spaces,
\* and it fits its 256-byte buffer with its terminator (violated: strcat
\* appends without a bound, and the cloud variant writes a space before
\* the first resolved word when an earlier id does not resolve).
C27_JoinWithinBuffer ==
    /\ pc # "fault"
    /\ Len(response_buf) + 1 <= ExpectedSize
    /\ pc = "joined" => response_buf = Phrase(table, call.ids)

(***************************************************************************)
(* SpecLife: the life of one local backend object after another in a       *)
(* process: init, shutdown, set_dictionary, extraction and detection       *)
(* calls, destroy and create. extract_game_verbs keeps its list in         *)
(* function-local statics; bitnet compiles the copy of llm_utils.h,        *)
(* llamacpp its own copy in nagi_llm_llamacpp.c.                           *)
(***************************************************************************)
MaxLifeCalls == 2       \* extraction calls between two inits

max_verbs == 50                 \* "int max_verbs = 50;"
VerbListSize == 512             \* "static char verb_list[512];"

\* "a", "look", "looks"
OtherTable == [a |-> <<[p |-> 0, s |-> <<97>>, id |-> 21]>>,
               l |-> <<[p |-> 0, s |-> LOOK, id |-> 5],
                       [p |-> 4, s |-> <<115>>, id |-> 6]>>]
LifeTables == {SessionTable, OtherTable}
LifeLanguages == {"English", "Spanish"}

\* strncat(dst, src, n): at most n characters of src
strncat(dst, src, n) == dst \o SubSeq(src, 1, Min(Len(src), n))

\* "if (strlen(buffer) > 0) { ... verb_count++; }": acc is [kind, list,
\* count], the list so far and verb_count
with_verb(acc, word) ==
    IF Len(word) = 0 THEN acc
    ELSE LET sep == IF acc.list # <<>>
                    THEN strncat(acc.list, <<44, 32>>,
                                 VerbListSize - Len(acc.list) - 1)
                    ELSE acc.list
         IN [acc EXCEPT !.list = strncat(sep, word,
                                         VerbListSize - Len(sep) - 1),
                        !.count = @ + 1]

\* the while loop over the records of one letter section; the id is
\* skipped with "ptr += 2". kind "oob" is a read outside the dictionary
\* bytes or a write at buffer[len] with len >= 64
RECURSIVE verb_section(_, _, _, _, _)
RECURSIVE add_verb(_, _, _, _)
verb_section(d, ptr, buf, words_in_section, acc) ==
    IF acc.count >= max_verbs THEN acc
    ELSE IF ~InData(d, ptr) THEN [acc EXCEPT !.kind = "oob"]
    ELSE IF words_in_section > 0 /\ ByteAt(d, ptr) = 0 THEN acc
    ELSE add_verb(d, DecodeChars(d, ptr + 1, buf, ByteAt(d, ptr)),
                  words_in_section + 1, acc)

add_verb(d, dc, words_in_section, acc) ==
    IF dc.kind # "ok" \/ dc.len >= BufSize THEN [acc EXCEPT !.kind = "oob"]
    ELSE verb_section(d, dc.ptr + 2, [dc.buf EXCEPT ![dc.len + 1] = 0],
                      words_in_section,
                      with_verb(acc, CStr([dc.buf EXCEPT ![dc.len + 1] = 0])))

\* the for loop over the 26 letter offsets; each section starts with a
\* local buffer of which buffer[0] is '\0'
RECURSIVE verb_letters(_, _, _)
verb_letters(d, i, acc) ==
    IF i >= NLetters \/ acc.count >= max_verbs \/ acc.kind # "ok" THEN acc
    ELSE IF ~InData(d, i * 2 + 1) THEN [acc EXCEPT !.kind = "oob"]
    ELSE IF load_be_16(d, i * 2) = 0 THEN verb_letters(d, i + 1, acc)
    ELSE verb_letters(d, i + 1,
                      verb_section(d, load_be_16(d, i * 2), ZeroBuffer, 0, acc))

game_verbs(d) == verb_letters(d, 0, [kind |-> "ok", list |-> <<>>, count |-> 0])

\* the statics of one copy before its first extraction
NoMemo == [verbs_extracted |-> FALSE, verb_list |-> <<>>]
NoVerbs == [kind |-> "none", text |-> <<>>]

memo_miss(m) == FALSE

\* "if (verbs_extracted) return verb_list;"
memo_hit(m) == m.verbs_extracted

\* extract_game_verbs with the statics m of its copy and the dictionary d
\* of the object: the statics after it, what it returns, and whether it
\* computed the list
extract_game_verbs(m, d) ==
    IF memo_hit(m)
    THEN [memo |-> m, verbs |-> [kind |-> "list", text |-> m.verb_list],
          computed |-> 0]
    ELSE IF d = <<>>
    THEN [memo |-> m, verbs |-> [kind |-> "null", text |-> <<>>],
          computed |-> 0]
    ELSE [memo |-> [verbs_extracted |-> TRUE, verb_list |-> game_verbs(d).list],
          verbs |-> [kind |-> "list", text |-> game_verbs(d).list],
          computed |-> 1]

\* "if (llm->state && llm->state->initialized) return 1;" in bitnet_init
\* and nagi_llm_init; llamacpp_init has no such test
already_initialized(b, init) == b = "bitnet" /\ init

InitLife ==
    /\ backend \in LocalBackends
    /\ initialized = FALSE /\ n_seq_max = 8 /\ batch_size = 1
    /\ seq_counter = 0 /\ detected_language = "" /\ verbs_extracted = FALSE
    /\ kv = EmptyKv
    /\ pc = "idle" /\ call = NoCall
    /\ current_seq = -1 /\ n_prompt_tokens = 0 /\ i_tok = 0 /\ gen_count = 0
    /\ clears = 0 /\ stale = FALSE /\ ret = NoRet /\ ncalls = 0 /\ nfail = 0
    /\ init_ret = -1 /\ language = "" /\ last_ok = ""
    /\ table = SessionTable /\ dictionary_data = <<>>
    /\ buffer = ZeroBuffer /\ word_id = -1 /\ gws = NoResult
    /\ response_buf = <<>> /\ match_ret = -1 /\ held = <<>> /\ OverlapIdle
    /\ ConfigIdle /\ EngineIdle
    /\ verb_memo = [b \in LocalBackends |-> NoMemo]
    /\ computed = [b \in LocalBackends |-> 0]
    /\ verbs = NoVerbs

lifeFixed == <<n_seq_max, batch_size, kv, pc, current_seq, n_prompt_tokens,
               i_tok, gen_count, clears, stale, ret, ncalls, nfail, language,
               last_ok, buffer, word_id, gws, response_buf, match_ret, held,
               overlapVars, configVars, engineVars>>
lifeState == <<initialized, seq_counter, dictionary_data, detected_language>>
lifeVerbs == <<verbs_extracted, verbVars>>

\* the operation op begins: call remembers the state it found. In
\* SpecLife init_ret is what the last init returned since the object was
\* created or last shut down, -1 if there was none
life_call(op) ==
    call' = [op |-> op, api |-> "backend", input |-> "look", ids |-> <<>>,
             before |-> [initialized |-> initialized,
                         seq_counter |-> seq_counter,
                         dictionary_data |-> dictionary_data,
                         detected_language |-> detected_language,
                         memo |-> verb_memo[backend]]]

\* the state is freed (or calloc has just zeroed a new one)
state_reset(init) ==
    /\ initialized' = init /\ seq_counter' = 0 /\ dictionary_data' = <<>>
    /\ detected_language' = ""

\* bitnet_init, llamacpp_init: the model and the context load (ok) or the
\* state is freed again
local_init ==
    /\ life_call("init")
    /\ IF already_initialized(backend, initialized)
       THEN init_ret' = 1 /\ UNCHANGED lifeState
       ELSE \E ok \in BOOLEAN :
               init_ret' = (IF ok THEN 1 ELSE 0) /\ state_reset(ok)
    /\ UNCHANGED <<backend, table, lifeVerbs, lifeFixed>>

\* bitnet_shutdown, llamacpp_shutdown: "if (!state) return;"
local_shutdown ==
    /\ life_call("shutdown")
    /\ IF ~initialized THEN UNCHANGED lifeState ELSE state_reset(FALSE)
    /\ init_ret' = -1
    /\ UNCHANGED <<backend, table, lifeVerbs, lifeFixed>>

\* nagi_llm_set_dictionary, llamacpp_set_dictionary: returns 0 without a
\* state, else stores the pointer
local_set_dictionary ==
    /\ life_call("set_dictionary")
    /\ IF ~initialized THEN UNCHANGED <<dictionary_data, table>>
       ELSE \E t \in LifeTables :
               dictionary_data' = Encode(t) /\ table' = t
    /\ UNCHANGED <<backend, initialized, seq_counter, detected_language,
                   init_ret, lifeVerbs, lifeFixed>>

\* bitnet_extract_words, llamacpp_extract_words: not ready returns input;
\* else the prompt is built with extract_game_verbs and the call takes a
\* slot with seq_counter++ (the engine run of the call is SpecCall's)
local_extract_words ==
    /\ seq_counter < MaxLifeCalls
    /\ life_call("extract")
    /\ IF ~initialized
       THEN UNCHANGED <<seq_counter, lifeVerbs>>
       ELSE /\ seq_counter' = seq_counter + 1
            /\ verb_memo' = [verb_memo EXCEPT ![backend] =
                   extract_game_verbs(@, dictionary_data).memo]
            /\ verbs' = extract_game_verbs(verb_memo[backend],
                                           dictionary_data).verbs
            /\ computed' = [computed EXCEPT ![backend] =
                   @ + extract_game_verbs(verb_memo[backend],
                                          dictionary_data).computed]
            /\ verbs_extracted' = verb_memo'[backend].verbs_extracted
    /\ UNCHANGED <<backend, initialized, dictionary_data, detected_language,
                   table, init_ret, lifeFixed>>

\* llama_common_detect_language: not ready returns "English"; else a
\* detection that succeeds caches its language
local_detect_language ==
    /\ life_call("detect")
    /\ IF ~initialized THEN UNCHANGED detected_language
       ELSE \E l \in LifeLanguages \cup {detected_language} :
               detected_language' = l
    /\ UNCHANGED <<backend, initialized, seq_counter, dictionary_data, table,
                   init_ret, lifeVerbs, lifeFixed>>

\* nagi_llm_destroy, then nagi_llm_create(b): the object is shut down and
\* freed, the new one has no state (its nagi_llm_init(llm, NULL, NULL) has
\* no model path to load); the statics of both copies stay
nagi_llm_create ==
    /\ life_call("create")
    /\ \E b \in LocalBackends :
          /\ backend' = b
          /\ verbs_extracted' = verb_memo[b].verbs_extracted
    /\ state_reset(FALSE)
    /\ init_ret' = -1
    /\ UNCHANGED <<table, verbVars, lifeFixed>>

NextLife ==
    \/ local_init
    \/ local_shutdown
    \/ local_set_dictionary
    \/ local_extract_words
    \/ local_detect_language
    \/ nagi_llm_create
SpecLife == InitLife /\ [][NextLife]_vars

\* the words of a table in the order of its sections, with ", " between
RECURSIVE CommaList(_)
CommaList(es) ==
    IF es = <<>> THEN <<>>
    ELSE IF Len(es) = 1 THEN es[1].word
    ELSE es[1].word \o <<44, 32>> \o CommaList(Tail(es))

\* what the last extraction call got from extract_game_verbs, by the
\* statics and the dictionary it found
VerbsAsFound ==
    (call.op = "extract" /\ call.before.initialized) =>
        IF call.before.memo.verbs_extracted
        THEN /\ verbs = [kind |-> "list", text |-> call.before.memo.verb_list]
             /\ verb_memo[backend] = call.before.memo
        ELSE IF call.before.dictionary_data = <<>>
        THEN verbs.kind = "null" /\ verb_memo[backend] = NoMemo
        ELSE /\ verbs = [kind |-> "list", text |-> CommaList(Entries(table))]
             /\ verb_memo[backend] =
                    [verbs_extracted |-> TRUE, verb_list |-> verbs.text]

\* C28 as stated: the list is computed at most once in the process, and
\* every call gets the list first computed (or none while no dictionary
\* is set and none was computed).
C28_OncePerProcess ==
    /\ VerbsAsFound
    /\ computed["bitnet"] + computed["llamacpp"] <= 1

\* C28, amended: each copy of extract_game_verbs (the one of llm_utils.h
\* that bitnet uses, the one of nagi_llm_llamacpp.c) computes its list at
\* most once in the process; after that every call of that backend gets
\* the same list, whatever dictionary is set and however often the
\* backend was shut down and initialised; a call without a dictionary gets
\* NULL and leaves the statics alone.
C28_OncePerCopy ==
    /\ VerbsAsFound
    /\ \A b \in LocalBackends :
          /\ computed[b] <= 1
          /\ verb_memo[b].verbs_extracted <=> computed[b] = 1

\* an extraction call that got the list of an earlier dictionary while
\* another one is set
C28_Witness ==
    /\ call.op = "extract" /\ call.before.initialized
    /\ call.before.memo.verbs_extracted
    /\ dictionary_data # <<>>
    /\ verbs.kind = "list" /\ verbs.text # CommaList(Entries(table))

\* C29: ready() is true exactly when the last init succeeded and no
\* shutdown came after it; init on a ready backend returns 1 and leaves
\* the rotation counter, the dictionary and the language cache alone;
\* shutdown of a backend that is not initialised changes nothing; a
\* successful init of a backend that was not ready starts with counter 0
\* and no dictionary (violated: llamacpp_init does not test for a ready
\* backend).
C29_Lifecycle ==
    /\ initialized <=> init_ret = 1
    /\ (call.op = "init" /\ call.before.initialized) =>
          /\ init_ret = 1
          /\ seq_counter = call.before.seq_counter
          /\ dictionary_data = call.before.dictionary_data
          /\ detected_language = call.before.detected_language
    /\ (call.op = "shutdown" /\ ~call.before.initialized) =>
          /\ ~initialized
          /\ seq_counter = call.before.seq_counter
          /\ dictionary_data = call.before.dictionary_data
          /\ detected_language = call.before.detected_language
    /\ (call.op = "init" /\ ~call.before.initialized /\ init_ret = 1) =>
          seq_counter = 0 /\ dictionary_data = <<>>

=============================================================================
